---- MODULE Spec2Model ----
(***************************************************************************)
(* A state-machine model of korotovsky/slack-mcp-server.                   *)
(*                                                                         *)
(* The module holds one group of variables per subsystem and one           *)
(* specification per subsystem; a subsystem's specification keeps the      *)
(* other groups at their idle values.                                      *)
(*                                                                         *)
(*   SpecRetry    pkg/limiter/retry.go           CallWithRetry             *)
(*   SpecPolicy   pkg/handler/conversations.go   isChannelAllowedForConfig *)
(*   SpecTools    pkg/server                     shouldAddTool             *)
(*   SpecWrite    pkg/handler                    the write-tool handlers   *)
(*   SpecAuth     pkg/server/auth/sse_auth.go    the auth boundary         *)
(*   SpecStore    pkg/oauth                      InMemoryStore             *)
(*   SpecRefresh  pkg/handler, pkg/provider      channels refresh on miss  *)
(*   SpecResolve  pkg/handler                    channel references        *)
(*   SpecUnread   pkg/handler/conversations.go   the unread engine         *)
(*   SpecHistory  pkg/handler/conversations.go   history/replies paging    *)
(*   SpecSearch   pkg/handler/conversations.go   the search cursor         *)
(*   SpecQuery    pkg/handler/conversations.go   the search-query builder  *)
(*   SpecLimit    pkg/handler/conversations.go   limitByExpression         *)
(*   SpecMark     pkg/handler/conversations.go   ConversationsMarkHandler  *)
(*   SpecScan     pkg/handler/conversations.go   scanTypeGroupForUnreads   *)
(*   SpecCallback pkg/oauth                      concurrent HandleCallback *)
(*   SpecAgree    pkg/server, pkg/handler        registration / invocation *)
(*   SpecSize     pkg/handler                    size parameters           *)
(***************************************************************************)
EXTENDS Integers, Sequences, FiniteSets, TLC

VARIABLES
    \* ---- pkg/limiter/retry.go: one CallWithRetry invocation
    rMax,        \* maxRetries argument
    rScript,     \* what fn returns on its 1st, 2nd, ... invocation
    rPc,         \* position of the call: "loop", "wait", "call", "sleep", "done"
    rAttempt,    \* the loop variable attempt
    rCalls,      \* number of invocations of fn so far
    rErr,        \* err: 0 is nil, n > 0 is the error of fn's n-th invocation
    rRet,        \* what CallWithRetry returned, [kind, idx]
    rCancelled,  \* ctx.Done() is closed
    rCancelAt,   \* where the call was when ctx was cancelled, [pc, calls]
    rTimer,      \* the time.After(backoff) channel is ready
    \* ---- pkg/handler/conversations.go: one isChannelAllowedForConfig call
    pConfig,     \* the config string (an env-var value)
    pChannel,    \* the channel ID asked about
    pDone,       \* the call has returned
    pAllowed,    \* its result
    \* ---- pkg/server: one tool-registration decision at start-up
    tTool,       \* the tool name
    tEnabled,    \* the explicit enabled-tools list
    tEnv,        \* the process environment, variable name -> value
    tDone,       \* the decision was taken
    tRegistered, \* its result
    \* ---- pkg/handler: the write-tool handlers and what they share
    wEnv,          \* the process environment, variable name -> value
    wUsersReady,   \* the users cache is ready
    wChannelsReady,\* the channels cache is ready
    wChannelsInv,  \* ChannelsInv: "#name" / "@name" -> channel ID
    wLast,         \* the last tool invocation: request, outcome, Slack write
    \* ---- pkg/server/auth: one request through the auth boundary
    aKey,          \* SLACK_MCP_API_KEY
    aSseKey,       \* SLACK_MCP_SSE_API_KEY (deprecated)
    aHasStore,     \* globalTokenStore != nil
    aStore,        \* the MCP token store: access token -> its Slack token
    aTransport,    \* "stdio", "sse", "http" or another word
    aHeader,       \* the request's Authorization header ("" when absent)
    aPc,           \* "request", "context", "done"
    aCtx,          \* the request context: auth key and Slack token values
    aAuthenticated,\* what IsAuthenticated returned
    aErr,          \* the error of the middleware ("" for none)
    aHandlerRan,   \* the tool handler behind the middleware was called
    \* ---- pkg/oauth: the in-memory token store and the clock, in minutes
    sNow,          \* time.Now()
    sAdvances,     \* how often the clock was advanced
    sTokens,       \* InMemoryStore.tokens: access token -> TokenInfo, with
                   \* the time of its issuance
    sStates,       \* InMemoryStore.states: state -> CreatedAt
    sNextCleanup,  \* when the cleanup ticker fires next
    sLast,         \* the last GetToken / ValidateState call and its result
    \* ---- concurrent resolveChannelID calls and the channels refresh
    fCallers,      \* caller -> [pc, flight, led, err]
    fInFlight,     \* a channels refresh is in flight
    fApiCalls,     \* conversations.list first-page calls made so far
    fFlights,      \* the result of each refresh started, "pending" until done
    fCache,        \* ChannelsInv
    \* ---- pkg/handler/conversations.go: one conversations_unreads call
    uToken,        \* the kind of the client's token: "xoxc", "xoxp", "xoxb"
    uParams,       \* max_channels, channel_types, include_muted
    uMutedFetch,   \* what GetMutedChannels answers: [ok, set]
    uWorkspace,    \* channel -> [hasUnreads, extShared], as Slack reports it
    uPc,           \* "start", "edge", "fallback", "done"
    uMuted,        \* params.mutedChannels
    uMutedUnavailable, \* params.mutedUnavailable
    uCollected,    \* the unread channels in the order they were collected
    uOut,          \* the channels of the result, in output order
    uHeader,       \* what the note in front of the CSV mentions
    uErr,          \* the error returned ("" for none)
    uCalls,        \* the Slack API methods called
    \* ---- pkg/handler/conversations.go: a client paging through history
    hTool,         \* "conversations_history" or "conversations_replies"
    hMessages,     \* the channel's messages: the SubType of each
    hLimit,        \* the numeric limit of the first call
    hActivity,     \* include_activity_messages
    hCalls,        \* the calls made so far
    hSlack,        \* Slack's last answer, [hasMore, nextCursor]
    hResp,         \* the last response, [rows, cursor]
    hSeen,         \* the messages returned so far
    \* ---- pkg/handler/conversations.go: a client paging through a search
    qPageCount,    \* Pagination.PageCount of the search
    qCalls,        \* the calls made so far
    qSent,         \* the cursor of the last call, [cursor, emittedOn]
    qParsed,       \* what parseParamsToolSearch made of it, [err, page]
    qResp,         \* the last response, [cursor, emittedOn]
    \* ---- pkg/handler/conversations.go: one parseParamsToolSearch call
    gRaw,          \* search_query
    gFilters,      \* the structured filter_* parameters
    gName,         \* the Name the channels cache holds for channel C1
    gDone,         \* the call has returned
    gErr,          \* its error ("" for none)
    gQuery,        \* the composed query
    \* ---- pkg/handler/conversations.go: one limitByExpression call
    lLimit,        \* the limit argument, as bytes
    lNow,          \* time.Now(), in seconds since the epoch
    lZone,         \* the offset of the local zone from UTC, in seconds
    lDone,         \* the call has returned
    lOut,          \* its result, [err, slackLimit, oldest, latest]
    \* ---- pkg/handler/conversations.go: calls of ConversationsMarkHandler
    mToolConfig,   \* SLACK_MCP_MARK_TOOL
    mReadPos,      \* Slack's read position of each channel (0: none)
    mLatest,       \* the timestamp of each channel's latest message (0: none)
    mCalls,        \* the calls made so far
    mPrev,         \* the call before the last
    mLast,         \* the last call, [channel, ts, err, resp, readPos]
    \* ---- pkg/handler/conversations.go: one scanTypeGroupForUnreads call
    cBudget,       \* the budget argument
    cTotal,        \* the conversations of the type group Slack can list
    cPc,           \* "fetch" (top of the outer loop), "page", "done"
    cPos,          \* the conversations the loops have gone through
    cPageEnd,      \* the last conversation of the page in hand
    cScanned,      \* scanned
    cFound,        \* len(unreadChannels)
    cCancelled,    \* ctx is cancelled
    cAtCancel,     \* [pos, scanned] when ctx was cancelled
    cLastCall,     \* the last Slack call, [method, limited, retries, cancelled]
    \* ---- pkg/oauth: /oauth/callback requests served concurrently
    kStates,       \* InMemoryStore.states: state -> CreatedAt
    kSaved,        \* the states GenerateState has returned so far
    kPc,           \* request -> its position in HandleCallback
    kParam,        \* request -> the state parameter it carries
    kIssued,       \* the requests whose MCP token was saved
    \* ---- pkg/handler: one call with a caller-supplied size parameter
    zOp,           \* the operation called, "none" before the call
    zSize,         \* max_channels / limit as the caller gave it
    zLen,          \* the length of the list the handler slices
    zStart,        \* startIndex of paginateChannels
    zResult        \* [panic, len]: how the slicing ended, the page's length

retryVars == <<rMax, rScript, rPc, rAttempt, rCalls, rErr, rRet, rCancelled,
               rCancelAt, rTimer>>

policyVars == <<pConfig, pChannel, pDone, pAllowed>>

toolVars == <<tTool, tEnabled, tEnv, tDone, tRegistered>>

writeVars == <<wEnv, wUsersReady, wChannelsReady, wChannelsInv, wLast>>

authVars == <<aKey, aSseKey, aHasStore, aStore, aTransport, aHeader, aPc,
              aCtx, aAuthenticated, aErr, aHandlerRan>>

storeVars == <<sNow, sAdvances, sTokens, sStates, sNextCleanup, sLast>>

refreshVars == <<fCallers, fInFlight, fApiCalls, fFlights, fCache>>

unreadVars == <<uToken, uParams, uMutedFetch, uWorkspace, uPc, uMuted,
                uMutedUnavailable, uCollected, uOut, uHeader, uErr, uCalls>>

historyVars == <<hTool, hMessages, hLimit, hActivity, hCalls, hSlack, hResp,
                 hSeen>>

searchVars == <<qPageCount, qCalls, qSent, qParsed, qResp>>

queryVars == <<gRaw, gFilters, gName, gDone, gErr, gQuery>>

limitVars == <<lLimit, lNow, lZone, lDone, lOut>>

markVars == <<mToolConfig, mReadPos, mLatest, mCalls, mPrev, mLast>>

scanVars == <<cBudget, cTotal, cPc, cPos, cPageEnd, cScanned, cFound,
              cCancelled, cAtCancel, cLastCall>>

callbackVars == <<kStates, kSaved, kPc, kParam, kIssued>>

sizeVars == <<zOp, zSize, zLen, zStart, zResult>>

vars == <<retryVars, policyVars, toolVars, writeVars, authVars, storeVars,
    refreshVars, unreadVars, historyVars, searchVars, queryVars, limitVars,
    markVars, scanVars, callbackVars, sizeVars>>

\* What each subsystem's actions leave alone.
retryOthers == <<policyVars, toolVars, writeVars, authVars, storeVars,
    refreshVars, unreadVars, historyVars, searchVars, queryVars, limitVars,
    markVars, scanVars, callbackVars, sizeVars>>
policyOthers == <<retryVars, toolVars, writeVars, authVars, storeVars,
    refreshVars, unreadVars, historyVars, searchVars, queryVars, limitVars,
    markVars, scanVars, callbackVars, sizeVars>>
toolOthers == <<retryVars, policyVars, writeVars, authVars, storeVars,
    refreshVars, unreadVars, historyVars, searchVars, queryVars, limitVars,
    markVars, scanVars, callbackVars, sizeVars>>
writeOthers == <<retryVars, policyVars, toolVars, authVars, storeVars,
    refreshVars, unreadVars, historyVars, searchVars, queryVars, limitVars,
    markVars, scanVars, callbackVars, sizeVars>>
authOthers == <<retryVars, policyVars, toolVars, writeVars, storeVars,
    refreshVars, unreadVars, historyVars, searchVars, queryVars, limitVars,
    markVars, scanVars, callbackVars, sizeVars>>
storeOthers == <<retryVars, policyVars, toolVars, writeVars, authVars,
    refreshVars, unreadVars, historyVars, searchVars, queryVars, limitVars,
    markVars, scanVars, callbackVars, sizeVars>>
refreshOthers == <<retryVars, policyVars, toolVars, writeVars, authVars,
    storeVars, unreadVars, historyVars, searchVars, queryVars, limitVars,
    markVars, scanVars, callbackVars, sizeVars>>
unreadOthers == <<retryVars, policyVars, toolVars, writeVars, authVars,
    storeVars, refreshVars, historyVars, searchVars, queryVars, limitVars,
    markVars, scanVars, callbackVars, sizeVars>>
historyOthers == <<retryVars, policyVars, toolVars, writeVars, authVars,
    storeVars, refreshVars, unreadVars, searchVars, queryVars, limitVars,
    markVars, scanVars, callbackVars, sizeVars>>
searchOthers == <<retryVars, policyVars, toolVars, writeVars, authVars,
    storeVars, refreshVars, unreadVars, historyVars, queryVars, limitVars,
    markVars, scanVars, callbackVars, sizeVars>>
queryOthers == <<retryVars, policyVars, toolVars, writeVars, authVars,
    storeVars, refreshVars, unreadVars, historyVars, searchVars, limitVars,
    markVars, scanVars, callbackVars, sizeVars>>
limitOthers == <<retryVars, policyVars, toolVars, writeVars, authVars,
    storeVars, refreshVars, unreadVars, historyVars, searchVars, queryVars,
    markVars, scanVars, callbackVars, sizeVars>>
markOthers == <<retryVars, policyVars, toolVars, writeVars, authVars,
    storeVars, refreshVars, unreadVars, historyVars, searchVars, queryVars,
    limitVars, scanVars, callbackVars, sizeVars>>
scanOthers == <<retryVars, policyVars, toolVars, writeVars, authVars,
    storeVars, refreshVars, unreadVars, historyVars, searchVars, queryVars,
    limitVars, markVars, callbackVars, sizeVars>>
callbackOthers == <<retryVars, policyVars, toolVars, writeVars, authVars,
    storeVars, refreshVars, unreadVars, historyVars, searchVars, queryVars,
    limitVars, markVars, scanVars, sizeVars>>
sizeOthers == <<retryVars, policyVars, toolVars, writeVars, authVars,
    storeVars, refreshVars, unreadVars, historyVars, searchVars, queryVars,
    limitVars, markVars, scanVars, callbackVars>>

(***************************************************************************)
(* Strings.  A Go string is a sequence of symbols; a symbol is a character *)
(* the code inspects (",", "!", " ", "#", "@") or a word it only compares  *)
(* as a whole ("C1", "true", "Bearer ", "xoxp-").                          *)
(***************************************************************************)

\* strings.HasPrefix
HasPrefix(s, prefix) ==
    /\ Len(s) >= Len(prefix)
    /\ SubSeq(s, 1, Len(prefix)) = prefix

\* strings.TrimPrefix
TrimPrefix(s, prefix) ==
    IF HasPrefix(s, prefix) THEN SubSeq(s, Len(prefix) + 1, Len(s)) ELSE s

RECURSIVE TrimLeft(_)
TrimLeft(s) ==
    IF s # <<>> /\ Head(s) = " " THEN TrimLeft(Tail(s)) ELSE s

RECURSIVE TrimRight(_)
TrimRight(s) ==
    IF s # <<>> /\ s[Len(s)] = " " THEN TrimRight(SubSeq(s, 1, Len(s) - 1)) ELSE s

\* strings.TrimSpace
TrimSpace(s) == TrimRight(TrimLeft(s))

RECURSIVE SplitFrom(_, _, _)
SplitFrom(s, sep, cur) ==
    IF s = <<>> THEN <<cur>>
    ELSE IF Head(s) = sep THEN <<cur>> \o SplitFrom(Tail(s), sep, <<>>)
    ELSE SplitFrom(Tail(s), sep, Append(cur, Head(s)))

\* strings.Split(s, sep) for a one-symbol separator: Split("", ",") is [""].
Split(s, sep) == SplitFrom(s, sep, <<>>)

\* strings.Contains
Contains(s, sub) ==
    \E i \in 0..(Len(s) - Len(sub)) : SubSeq(s, i + 1, i + Len(sub)) = sub

\* The strings of length at most n over an alphabet.
RECURSIVE StringsUpTo(_, _)
StringsUpTo(alphabet, n) ==
    IF n = 0 THEN {<<>>}
    ELSE LET shorter == StringsUpTo(alphabet, n - 1)
         IN  shorter \cup {Append(t, c) : t \in shorter, c \in alphabet}

(***************************************************************************)
(* pkg/limiter/retry.go                                                    *)
(***************************************************************************)

\* Largest maxRetries the model passes to CallWithRetry.
MaxRetriesBound == 2

\* Largest backoff (in abstract time units) an error is classified with.
MaxBackoff == 1

\* A result of fn: success, or an error that the retryAfter callback
\* classifies with the duration backoff (positive: retry after it).
FnOutcomes ==
    {[ok |-> TRUE, backoff |-> 0]}
        \cup {[ok |-> FALSE, backoff |-> b] : b \in (-1)..MaxBackoff}

\* fn's n-th invocation (the script's last entry repeats).
FnResult(n) ==
    rScript[IF n <= Len(rScript) THEN n ELSE Len(rScript)]

\* The caller-supplied retryAfter callback applied to fn's n-th error.
retryAfter(n) == FnResult(n).backoff

NoReturn == [kind |-> "none", idx |-> 0]
NotCancelled == [pc |-> "never", calls |-> 0]

RetryIdle ==
    /\ rMax = 0
    /\ rScript = <<>>
    /\ rPc = "idle"
    /\ rAttempt = 0
    /\ rCalls = 0
    /\ rErr = 0
    /\ rRet = NoReturn
    /\ rCancelled = FALSE
    /\ rCancelAt = NotCancelled
    /\ rTimer = FALSE

PolicyIdle ==
    /\ pConfig = <<>>
    /\ pChannel = <<>>
    /\ pDone = FALSE
    /\ pAllowed = FALSE

ToolIdle ==
    /\ tTool = ""
    /\ tEnabled = {}
    /\ tEnv = <<>>
    /\ tDone = FALSE
    /\ tRegistered = FALSE

NoInvocation ==
    [handler |-> "none", tool |-> "", ref |-> <<>>, paramsOk |-> FALSE,
     channel |-> <<>>, err |-> "", issued |-> "none", refreshes |-> 0,
     refresh |-> "none", lookups |-> 0]

WriteIdle ==
    /\ wEnv = <<>>
    /\ wUsersReady = FALSE
    /\ wChannelsReady = FALSE
    /\ wChannelsInv = <<>>
    /\ wLast = NoInvocation

EmptyCtx ==
    [hasAuthKey |-> FALSE, authKey |-> <<>>,
     hasSlackToken |-> FALSE, slackToken |-> <<>>]

AuthIdle ==
    /\ aKey = <<>>
    /\ aSseKey = <<>>
    /\ aHasStore = FALSE
    /\ aStore = <<>>
    /\ aTransport = ""
    /\ aHeader = <<>>
    /\ aPc = "idle"
    /\ aCtx = EmptyCtx
    /\ aAuthenticated = FALSE
    /\ aErr = ""
    /\ aHandlerRan = FALSE

NoStoreCall == [op |-> "none", key |-> "", hit |-> FALSE, at |-> 0, since |-> 0]

StoreIdle ==
    /\ sNow = 0
    /\ sAdvances = 0
    /\ sTokens = <<>>
    /\ sStates = <<>>
    /\ sNextCleanup = 0
    /\ sLast = NoStoreCall

RefreshIdle ==
    /\ fCallers = <<>>
    /\ fInFlight = FALSE
    /\ fApiCalls = 0
    /\ fFlights = <<>>
    /\ fCache = <<>>

UnreadIdle ==
    /\ uToken = ""
    /\ uParams = <<>>
    /\ uMutedFetch = <<>>
    /\ uWorkspace = <<>>
    /\ uPc = "idle"
    /\ uMuted = {}
    /\ uMutedUnavailable = FALSE
    /\ uCollected = <<>>
    /\ uOut = <<>>
    /\ uHeader = {}
    /\ uErr = ""
    /\ uCalls = {}

NoAnswer == [hasMore |-> FALSE, nextCursor |-> 0]

NoResponse == [rows |-> <<>>, cursor |-> 0]

HistoryIdle ==
    /\ hTool = ""
    /\ hMessages = <<>>
    /\ hLimit = 0
    /\ hActivity = FALSE
    /\ hCalls = 0
    /\ hSlack = NoAnswer
    /\ hResp = NoResponse
    /\ hSeen = {}

NoCursor == [cursor |-> <<>>, emittedOn |-> 0]

NotParsed == [err |-> "", page |-> 0]

SearchIdle ==
    /\ qPageCount = 0
    /\ qCalls = 0
    /\ qSent = NoCursor
    /\ qParsed = NotParsed
    /\ qResp = NoCursor

QueryIdle ==
    /\ gRaw = <<>>
    /\ gFilters = <<>>
    /\ gName = <<>>
    /\ gDone = FALSE
    /\ gErr = ""
    /\ gQuery = <<>>

NoLimits == [err |-> "", slackLimit |-> 0, oldest |-> <<>>, latest |-> <<>>]

LimitIdle ==
    /\ lLimit = <<>>
    /\ lNow = 0
    /\ lZone = 0
    /\ lDone = FALSE
    /\ lOut = NoLimits

NoMark == [channel |-> "", ts |-> 0, err |-> "", resp |-> <<>>, readPos |-> 0]

MarkIdle ==
    /\ mToolConfig = <<>>
    /\ mReadPos = <<>>
    /\ mLatest = <<>>
    /\ mCalls = 0
    /\ mPrev = NoMark
    /\ mLast = NoMark

NoCall == [method |-> "none", limited |-> FALSE, retries |-> 0,
           cancelled |-> FALSE]

ScanNotCancelled == [pos |-> 0, scanned |-> 0]

ScanIdle ==
    /\ cBudget = 0
    /\ cTotal = 0
    /\ cPc = "idle"
    /\ cPos = 0
    /\ cPageEnd = 0
    /\ cScanned = 0
    /\ cFound = 0
    /\ cCancelled = FALSE
    /\ cAtCancel = ScanNotCancelled
    /\ cLastCall = NoCall

CallbackIdle ==
    /\ kStates = <<>>
    /\ kSaved = {}
    /\ kPc = <<>>
    /\ kParam = <<>>
    /\ kIssued = {}

NoResult == [panic |-> FALSE, len |-> 0]

SizeIdle ==
    /\ zOp = "idle"
    /\ zSize = 0
    /\ zLen = 0
    /\ zStart = 0
    /\ zResult = NoResult

RetryOthersIdle == PolicyIdle /\ ToolIdle /\ WriteIdle /\ AuthIdle /\
    StoreIdle /\ RefreshIdle /\ UnreadIdle /\ HistoryIdle /\ SearchIdle /\
    QueryIdle /\ LimitIdle /\ MarkIdle /\ ScanIdle /\ CallbackIdle /\
    SizeIdle
PolicyOthersIdle == RetryIdle /\ ToolIdle /\ WriteIdle /\ AuthIdle /\
    StoreIdle /\ RefreshIdle /\ UnreadIdle /\ HistoryIdle /\ SearchIdle /\
    QueryIdle /\ LimitIdle /\ MarkIdle /\ ScanIdle /\ CallbackIdle /\
    SizeIdle
ToolOthersIdle == RetryIdle /\ PolicyIdle /\ WriteIdle /\ AuthIdle /\
    StoreIdle /\ RefreshIdle /\ UnreadIdle /\ HistoryIdle /\ SearchIdle /\
    QueryIdle /\ LimitIdle /\ MarkIdle /\ ScanIdle /\ CallbackIdle /\
    SizeIdle
WriteOthersIdle == RetryIdle /\ PolicyIdle /\ ToolIdle /\ AuthIdle /\
    StoreIdle /\ RefreshIdle /\ UnreadIdle /\ HistoryIdle /\ SearchIdle /\
    QueryIdle /\ LimitIdle /\ MarkIdle /\ ScanIdle /\ CallbackIdle /\
    SizeIdle
AuthOthersIdle == RetryIdle /\ PolicyIdle /\ ToolIdle /\ WriteIdle /\
    StoreIdle /\ RefreshIdle /\ UnreadIdle /\ HistoryIdle /\ SearchIdle /\
    QueryIdle /\ LimitIdle /\ MarkIdle /\ ScanIdle /\ CallbackIdle /\
    SizeIdle
StoreOthersIdle == RetryIdle /\ PolicyIdle /\ ToolIdle /\ WriteIdle /\
    AuthIdle /\ RefreshIdle /\ UnreadIdle /\ HistoryIdle /\ SearchIdle /\
    QueryIdle /\ LimitIdle /\ MarkIdle /\ ScanIdle /\ CallbackIdle /\
    SizeIdle
RefreshOthersIdle == RetryIdle /\ PolicyIdle /\ ToolIdle /\ WriteIdle /\
    AuthIdle /\ StoreIdle /\ UnreadIdle /\ HistoryIdle /\ SearchIdle /\
    QueryIdle /\ LimitIdle /\ MarkIdle /\ ScanIdle /\ CallbackIdle /\
    SizeIdle
UnreadOthersIdle == RetryIdle /\ PolicyIdle /\ ToolIdle /\ WriteIdle /\
    AuthIdle /\ StoreIdle /\ RefreshIdle /\ HistoryIdle /\ SearchIdle /\
    QueryIdle /\ LimitIdle /\ MarkIdle /\ ScanIdle /\ CallbackIdle /\
    SizeIdle
HistoryOthersIdle == RetryIdle /\ PolicyIdle /\ ToolIdle /\ WriteIdle /\
    AuthIdle /\ StoreIdle /\ RefreshIdle /\ UnreadIdle /\ SearchIdle /\
    QueryIdle /\ LimitIdle /\ MarkIdle /\ ScanIdle /\ CallbackIdle /\
    SizeIdle
SearchOthersIdle == RetryIdle /\ PolicyIdle /\ ToolIdle /\ WriteIdle /\
    AuthIdle /\ StoreIdle /\ RefreshIdle /\ UnreadIdle /\ HistoryIdle /\
    QueryIdle /\ LimitIdle /\ MarkIdle /\ ScanIdle /\ CallbackIdle /\
    SizeIdle
QueryOthersIdle == RetryIdle /\ PolicyIdle /\ ToolIdle /\ WriteIdle /\
    AuthIdle /\ StoreIdle /\ RefreshIdle /\ UnreadIdle /\ HistoryIdle /\
    SearchIdle /\ LimitIdle /\ MarkIdle /\ ScanIdle /\ CallbackIdle /\
    SizeIdle
LimitOthersIdle == RetryIdle /\ PolicyIdle /\ ToolIdle /\ WriteIdle /\
    AuthIdle /\ StoreIdle /\ RefreshIdle /\ UnreadIdle /\ HistoryIdle /\
    SearchIdle /\ QueryIdle /\ MarkIdle /\ ScanIdle /\ CallbackIdle /\
    SizeIdle
MarkOthersIdle == RetryIdle /\ PolicyIdle /\ ToolIdle /\ WriteIdle /\
    AuthIdle /\ StoreIdle /\ RefreshIdle /\ UnreadIdle /\ HistoryIdle /\
    SearchIdle /\ QueryIdle /\ LimitIdle /\ ScanIdle /\ CallbackIdle /\
    SizeIdle
ScanOthersIdle == RetryIdle /\ PolicyIdle /\ ToolIdle /\ WriteIdle /\
    AuthIdle /\ StoreIdle /\ RefreshIdle /\ UnreadIdle /\ HistoryIdle /\
    SearchIdle /\ QueryIdle /\ LimitIdle /\ MarkIdle /\ CallbackIdle /\
    SizeIdle
CallbackOthersIdle == RetryIdle /\ PolicyIdle /\ ToolIdle /\ WriteIdle /\
    AuthIdle /\ StoreIdle /\ RefreshIdle /\ UnreadIdle /\ HistoryIdle /\
    SearchIdle /\ QueryIdle /\ LimitIdle /\ MarkIdle /\ ScanIdle /\ SizeIdle
SizeOthersIdle == RetryIdle /\ PolicyIdle /\ ToolIdle /\ WriteIdle /\
    AuthIdle /\ StoreIdle /\ RefreshIdle /\ UnreadIdle /\ HistoryIdle /\
    SearchIdle /\ QueryIdle /\ LimitIdle /\ MarkIdle /\ ScanIdle /\
    CallbackIdle

RetryInit ==
    /\ RetryOthersIdle
    /\ rMax \in 0..MaxRetriesBound
    /\ rScript \in [1..(MaxRetriesBound + 1) -> FnOutcomes]
    /\ rPc = "loop"
    /\ rAttempt = 0
    /\ rCalls = 0
    /\ rErr = 0
    /\ rRet = NoReturn
    /\ rCancelled = FALSE
    /\ rCancelAt = NotCancelled
    /\ rTimer = FALSE

\* for attempt := 0; attempt <= maxRetries; attempt++
LoopContinues(attempt, maxRetries) == attempt <= maxRetries

\* rl.Wait(ctx) returns an error: the context was cancelled (or its deadline
\* passed) before the limiter granted a token.
LimiterWaitFailsNoCtx(cancelled) == FALSE

LimiterWaitFails(cancelled) == cancelled

\* if backoff <= 0: the error is not retryable.
IsNonRetryableZeroOnly(backoff) == backoff = 0

IsNonRetryable(backoff) == backoff <= 0

\* if attempt == maxRetries: the retries are exhausted.
RetriesExhaustedOffByOne(attempt, maxRetries) == attempt + 1 >= maxRetries

RetriesExhausted(attempt, maxRetries) == attempt = maxRetries

\* The head of the for loop; the fall-through return after the loop.
RetryLoopHead ==
    /\ rPc = "loop"
    /\ IF LoopContinues(rAttempt, rMax)
         THEN /\ rPc' = "wait"
              /\ rRet' = rRet
         ELSE /\ rPc' = "done"
              /\ rRet' = IF rErr = 0 THEN [kind |-> "ok", idx |-> 0]
                                     ELSE [kind |-> "fn", idx |-> rErr]
    /\ UNCHANGED retryOthers
    /\ UNCHANGED <<rMax, rScript, rAttempt, rCalls, rErr, rCancelled,
                   rCancelAt, rTimer>>

\* rl.Wait(ctx) returns.
RetryWaitLimiter ==
    /\ rPc = "wait"
    /\ IF LimiterWaitFails(rCancelled)
         THEN /\ rPc' = "done"
              /\ rRet' = [kind |-> "wait", idx |-> 0]
         ELSE /\ rPc' = "call"
              /\ rRet' = rRet
    /\ UNCHANGED retryOthers
    /\ UNCHANGED <<rMax, rScript, rAttempt, rCalls, rErr, rCancelled,
                   rCancelAt, rTimer>>

\* result, err = fn() and the classification of its error.
RetryCallFn ==
    /\ rPc = "call"
    /\ rCalls' = rCalls + 1
    /\ LET n == rCalls + 1
           out == FnResult(n)
       IN  IF out.ok
             THEN /\ rErr' = 0
                  /\ rRet' = [kind |-> "ok", idx |-> n]
                  /\ rPc' = "done"
                  /\ rTimer' = rTimer
             ELSE /\ rErr' = n
                  /\ IF IsNonRetryable(retryAfter(n))
                          \/ RetriesExhausted(rAttempt, rMax)
                       THEN /\ rRet' = [kind |-> "fn", idx |-> n]
                            /\ rPc' = "done"
                            /\ rTimer' = rTimer
                       ELSE /\ rRet' = rRet
                            /\ rPc' = "sleep"
                            \* a non-positive duration makes time.After ready at once
                            /\ rTimer' = (retryAfter(n) <= 0)
    /\ UNCHANGED retryOthers
    /\ UNCHANGED <<rMax, rScript, rAttempt, rCancelled, rCancelAt>>

\* The backoff elapses: the time.After channel becomes ready.
RetryTimerFires ==
    /\ rPc = "sleep"
    /\ ~rTimer
    /\ rTimer' = TRUE
    /\ UNCHANGED retryOthers
    /\ UNCHANGED <<rMax, rScript, rPc, rAttempt, rCalls, rErr, rRet,
                   rCancelled, rCancelAt>>

\* select { case <-ctx.Done(): ...; case <-time.After(backoff): }
\* When both channels are ready the select takes either case.
RetrySleepSelect ==
    /\ rPc = "sleep"
    /\ \/ /\ rCancelled
          /\ rPc' = "done"
          /\ rRet' = [kind |-> "ctx", idx |-> 0]
          /\ rAttempt' = rAttempt
       \/ /\ rTimer
          /\ rPc' = "loop"
          /\ rRet' = rRet
          /\ rAttempt' = rAttempt + 1
    /\ rTimer' = FALSE
    /\ UNCHANGED retryOthers
    /\ UNCHANGED <<rMax, rScript, rCalls, rErr, rCancelled, rCancelAt>>

\* The request context is cancelled, or its deadline passes.
RetryCancel ==
    /\ rPc \in {"loop", "wait", "call", "sleep"}
    /\ ~rCancelled
    /\ rCancelled' = TRUE
    /\ rCancelAt' = [pc |-> rPc, calls |-> rCalls]
    /\ UNCHANGED retryOthers
    /\ UNCHANGED <<rMax, rScript, rPc, rAttempt, rCalls, rErr, rRet, rTimer>>

RetryNext ==
    \/ RetryLoopHead
    \/ RetryWaitLimiter
    \/ RetryCallFn
    \/ RetryTimerFires
    \/ RetrySleepSelect
    \/ RetryCancel

SpecRetry == RetryInit /\ [][RetryNext]_vars

\* The scheduler runs the calling goroutine, the limiter grants a token or
\* reports the cancelled context, fn returns and the backoff timer fires.
RetryProgress ==
    \/ RetryLoopHead
    \/ RetryWaitLimiter
    \/ RetryCallFn
    \/ RetryTimerFires
    \/ RetrySleepSelect

FairSpecRetry == SpecRetry /\ WF_vars(RetryProgress)

\* fn fails on every invocation; its first k errors are classified with a
\* positive duration and every later one with a non-positive duration.
RetryableExactly(k) ==
    \A i \in DOMAIN rScript :
        /\ ~rScript[i].ok
        /\ (i <= k) <=> (rScript[i].backoff > 0)

\* fn fails on every invocation and every error is classified retryable.
AlwaysRetryable ==
    \A i \in DOMAIN rScript : ~rScript[i].ok /\ rScript[i].backoff > 0

\* C1: when fn always fails, its first k <= maxRetries errors are retryable
\* and the later ones are not, fn is invoked exactly k + 1 times and the
\* error returned is the one of the last invocation (k = 0: a single call).
C1_RetryCount ==
    \A k \in 0..rMax :
        (rPc = "done" /\ rCancelAt = NotCancelled /\ RetryableExactly(k))
            => (rCalls = k + 1 /\ rRet = [kind |-> "fn", idx |-> k + 1])

C1_Witness ==
    /\ rPc = "done"
    /\ rCancelAt = NotCancelled
    /\ rMax = 2
    /\ RetryableExactly(1)
    /\ rCalls = 2

\* C2: fn is invoked at most maxRetries + 1 times whatever it returns; when
\* every error is retryable it is invoked exactly maxRetries + 1 times and
\* the last error is returned; and the call always terminates.
C2_RetryCapInv ==
    /\ rCalls <= rMax + 1
    /\ (rPc = "done" /\ rCancelAt = NotCancelled /\ AlwaysRetryable)
           => (rCalls = rMax + 1 /\ rRet = [kind |-> "fn", idx |-> rMax + 1])

C2_RetryCap == []C2_RetryCapInv /\ <>(rPc = "done")

C2_Witness ==
    /\ rPc = "done"
    /\ rCancelAt = NotCancelled
    /\ AlwaysRetryable
    /\ rMax = 2
    /\ rCalls = 3

\* C3: once the context is cancelled while the call waits on the limiter or
\* sleeps for a backoff, fn is not invoked again and the call returns an
\* error.
C3_Cancellation ==
    rCancelAt.pc \in {"wait", "sleep"}
        => /\ rCalls = rCancelAt.calls
           /\ rPc = "done" => rRet.kind \in {"wait", "ctx"}

C3_Witness ==
    /\ rPc = "done"
    /\ rCancelAt.pc = "sleep"
    /\ rCancelAt.calls = 1
    /\ rRet.kind = "wait"

(***************************************************************************)
(* pkg/handler/conversations.go: the channel allow/deny policy             *)
(***************************************************************************)

\* Longest config string of the policy specification, in symbols.
MaxConfigLen == 5

\* The symbols of a channel list.
PolicyAlphabet == {"C1", "C2", "!", ",", " "}

PolicyChannels == {<<"C1">>, <<"C2">>, <<"C3">>}

\* The configs that allow every channel.
AnyChannelConfigs == {<<>>, <<"true">>, <<"1">>}

\* return isNegated, after the loop found no matching item.
NoMatchResultInverted(isNegated) == ~isNegated

NoMatchResult(isNegated) == isNegated

\* for _, item := range items { ... }, from the i-th item on.
RECURSIVE ScanItems(_, _, _, _)
ScanItems(items, i, channel, isNegated) ==
    IF i > Len(items) THEN NoMatchResult(isNegated)
    ELSE LET item == TrimSpace(items[i])
         IN  IF isNegated
               THEN IF TrimPrefix(item, <<"!">>) = channel
                      THEN FALSE
                      ELSE ScanItems(items, i + 1, channel, isNegated)
               ELSE IF item = channel
                      THEN TRUE
                      ELSE ScanItems(items, i + 1, channel, isNegated)

isChannelAllowedForConfig(channel, config) ==
    IF config \in AnyChannelConfigs THEN TRUE
    ELSE LET items == Split(config, ",")
             isNegated == HasPrefix(TrimSpace(items[1]), <<"!">>)
         IN  ScanItems(items, 1, channel, isNegated)

PolicyInit ==
    /\ PolicyOthersIdle
    /\ pConfig \in StringsUpTo(PolicyAlphabet, MaxConfigLen) \cup AnyChannelConfigs
    /\ pChannel \in PolicyChannels
    /\ pDone = FALSE
    /\ pAllowed = FALSE

PolicyEvaluate ==
    /\ ~pDone
    /\ pDone' = TRUE
    /\ pAllowed' = isChannelAllowedForConfig(pChannel, pConfig)
    /\ UNCHANGED <<pConfig, pChannel>>
    /\ UNCHANGED policyOthers

PolicyNext == PolicyEvaluate

SpecPolicy == PolicyInit /\ [][PolicyNext]_vars

\* The entries of a comma-separated config, surrounding blanks removed.
ConfigEntries(config) ==
    LET items == Split(config, ",")
    IN  {TrimSpace(items[i]) : i \in 1..Len(items)}

IsNegatedEntry(e) == e # <<>> /\ Head(e) = "!"

\* C6: for a comma-separated channel list with no '!'-prefixed entry the
\* channel is allowed iff it equals one of the entries; for a list whose
\* entries are all '!'-prefixed it is allowed iff it equals none of the
\* entries with the '!' removed.  (The values "", "true" and "1" are not
\* channel lists: they allow every channel.)
C6_AllowDenyPolicy ==
    (pDone /\ pConfig \notin AnyChannelConfigs) =>
        LET entries == ConfigEntries(pConfig)
        IN  /\ (\A e \in entries : ~IsNegatedEntry(e))
                => (pAllowed <=> pChannel \in entries)
            /\ (\A e \in entries : IsNegatedEntry(e))
                => (pAllowed <=> pChannel \notin {Tail(e) : e \in entries})

C6_Witness ==
    /\ pDone
    /\ pConfig = <<"!", "C1", ",", "!", "C2">>
    /\ pChannel = <<"C3">>
    /\ pAllowed

(***************************************************************************)
(* pkg/server: the tool-registration policy                                *)
(***************************************************************************)

ReadOnlyTools == {"conversations_history", "channels_list"}

\* The write tools of the model and the env var that controls each.
WriteToolEnvVar ==
    [conversations_add_message |-> "SLACK_MCP_ADD_MESSAGE_TOOL",
     reactions_add |-> "SLACK_MCP_REACTION_TOOL",
     reactions_remove |-> "SLACK_MCP_REACTION_TOOL"]

WriteTools == DOMAIN WriteToolEnvVar

ToolNames == ReadOnlyTools \cup WriteTools

EnvVarNames == {WriteToolEnvVar[t] : t \in WriteTools}

\* The env-var values the model sets: unset, every channel, an allowlist,
\* a blocklist.
EnvValues ==
    {<<>>, <<"true">>, <<"C1">>, <<"C1", ",", "C2">>, <<"!", "C1">>}

\* The env var of a tool; "" for a read-only tool.
EnvVarOf(tool) == IF tool \in WriteTools THEN WriteToolEnvVar[tool] ELSE ""

\* os.Getenv
Getenv(env, name) == IF name \in DOMAIN env THEN env[name] ELSE <<>>

\* With an empty enabled-tools list a write tool is registered iff its env
\* var is non-empty.
WriteToolDefaultIgnoresEnv(env, envVarName) == TRUE

WriteToolDefault(env, envVarName) == Getenv(env, envVarName) # <<>>

\* shouldAddTool(name, enabledTools, envVarName)
shouldAddTool(name, enabledTools, envVarName, env) ==
    IF enabledTools = {}
      THEN IF envVarName = "" THEN TRUE ELSE WriteToolDefault(env, envVarName)
      ELSE name \in enabledTools

ToolInit ==
    /\ ToolOthersIdle
    /\ tTool \in ToolNames
    /\ tEnabled \in SUBSET ToolNames
    /\ tEnv \in [EnvVarNames -> EnvValues]
    /\ tDone = FALSE
    /\ tRegistered = FALSE

ToolRegister ==
    /\ ~tDone
    /\ tDone' = TRUE
    /\ tRegistered' = shouldAddTool(tTool, tEnabled, EnvVarOf(tTool), tEnv)
    /\ UNCHANGED <<tTool, tEnabled, tEnv>>
    /\ UNCHANGED toolOthers

ToolNext == ToolRegister

SpecTools == ToolInit /\ [][ToolNext]_vars

EnabledToolsValues ==
    {<<>>,
     <<"conversations_history">>,
     <<"reactions_add">>,
     <<"conversations_add_message", ",", "reactions_remove">>}

\* The contents of the channels cache the model knows: empty, or with
\* #general resolving to C1.
ChannelCaches == {<<>>, [n \in {<<"#", "general">>} |-> <<"C1">>]}

\* What a tool request carries: channel_id, whether the tool's other
\* parameters are present and valid, whether the timestamp has the form
\* seconds.microseconds, and what auth.IsAuthenticated answers.
ToolRequests ==
    [channel : {<<>>, <<"C1">>, <<"C2">>, <<"#", "general">>},
     paramsOk : BOOLEAN,
     tsFormatOk : BOOLEAN,
     authed : BOOLEAN]

\* The outcomes of ForceRefreshChannels: the cache was replaced, the
\* refresh was rate-limited, the refresh failed.
RefreshOutcomes ==
    {[kind |-> "ok", inv |-> c] : c \in ChannelCaches}
        \cup {[kind |-> "rate_limited", inv |-> <<>>],
              [kind |-> "error", inv |-> <<>>]}

\* apiProvider.IsReady()
IsReady == wUsersReady /\ wChannelsReady

IsChannelRef(channel) ==
    HasPrefix(channel, <<"#">>) \/ HasPrefix(channel, <<"@">>)

\* ConversationsHandler.resolveChannelID: the resolved ID or the error, the
\* cache afterwards, and the refreshes and cache lookups it made.
resolveChannelID(channel, inv, outcome) ==
    IF ~IsChannelRef(channel)
      THEN [err |-> "", id |-> channel, inv |-> inv,
            refreshes |-> 0, refresh |-> "none", lookups |-> 0]
    ELSE IF channel \in DOMAIN inv
      THEN [err |-> "", id |-> inv[channel], inv |-> inv,
            refreshes |-> 0, refresh |-> "none", lookups |-> 1]
    ELSE IF outcome.kind = "error"
      THEN [err |-> "refresh_failed", id |-> <<>>, inv |-> inv,
            refreshes |-> 1, refresh |-> outcome.kind, lookups |-> 1]
    ELSE IF outcome.kind = "rate_limited"
      THEN [err |-> "not_found_rate_limited", id |-> <<>>, inv |-> inv,
            refreshes |-> 1, refresh |-> outcome.kind, lookups |-> 1]
    ELSE IF channel \in DOMAIN outcome.inv
      THEN [err |-> "", id |-> outcome.inv[channel], inv |-> outcome.inv,
            refreshes |-> 1, refresh |-> outcome.kind, lookups |-> 2]
    ELSE [err |-> "not_found", id |-> <<>>, inv |-> outcome.inv,
          refreshes |-> 1, refresh |-> outcome.kind, lookups |-> 2]

\* isChannelAllowed: the add-message policy, read from the environment.
isChannelAllowed(channel, env) ==
    isChannelAllowedForConfig(channel, Getenv(env, "SLACK_MCP_ADD_MESSAGE_TOOL"))

\* A handler's outcome: the error ("" for none), the Slack write it issued,
\* the channel it resolved, the cache afterwards.
Outcome(err, issued, r) ==
    [err |-> err, issued |-> issued, channel |-> r.id, inv |-> r.inv,
     refreshes |-> r.refreshes, refresh |-> r.refresh,
     lookups |-> r.lookups]

Unresolved(inv) ==
    [err |-> "", id |-> <<>>, inv |-> inv,
     refreshes |-> 0, refresh |-> "none", lookups |-> 0]

\* ConversationsHandler.ConversationsAddMessageHandler with
\* parseParamsToolAddMessage.
ConversationsAddMessage(req, outcome, slackOk) ==
    LET toolConfig == Getenv(wEnv, "SLACK_MCP_ADD_MESSAGE_TOOL")
        enabledTools == Getenv(wEnv, "SLACK_MCP_ENABLED_TOOLS")
        r == resolveChannelID(req.channel, wChannelsInv, outcome)
    IN  IF ~IsReady
          THEN Outcome("not_ready", "none", Unresolved(wChannelsInv))
        ELSE IF toolConfig = <<>>
                /\ ~Contains(enabledTools, <<"conversations_add_message">>)
          THEN Outcome("disabled", "none", Unresolved(wChannelsInv))
        ELSE IF req.channel = <<>>
          THEN Outcome("invalid_params", "none", Unresolved(wChannelsInv))
        ELSE IF r.err # ""
          THEN Outcome(r.err, "none", r)
        ELSE IF ~isChannelAllowed(r.id, wEnv)
          THEN Outcome("policy", "none", r)
        ELSE IF ~req.paramsOk
          THEN Outcome("invalid_params", "none", r)
        ELSE Outcome(IF slackOk THEN "" ELSE "slack_error", "post", r)

\* ConversationsHandler.ReactionsAddHandler / ReactionsRemoveHandler with
\* parseParamsToolReaction; write is "react" or "unreact".
ConversationsReaction(req, outcome, slackOk, write) ==
    LET envConfig == Getenv(wEnv, "SLACK_MCP_REACTION_TOOL")
        enabledTools == Getenv(wEnv, "SLACK_MCP_ENABLED_TOOLS")
        toolConfig == IF envConfig = <<>> THEN <<"true">> ELSE envConfig
        r == resolveChannelID(req.channel, wChannelsInv, outcome)
    IN  IF ~IsReady
          THEN Outcome("not_ready", "none", Unresolved(wChannelsInv))
        ELSE IF envConfig = <<>>
                /\ ~Contains(enabledTools, <<"reactions_add">>)
                /\ ~Contains(enabledTools, <<"reactions_remove">>)
          THEN Outcome("disabled", "none", Unresolved(wChannelsInv))
        ELSE IF req.channel = <<>>
          THEN Outcome("invalid_params", "none", Unresolved(wChannelsInv))
        ELSE IF r.err # ""
          THEN Outcome(r.err, "none", r)
        ELSE IF ~isChannelAllowedForConfig(r.id, toolConfig)
          THEN Outcome("policy", "none", r)
        ELSE IF ~req.paramsOk
          THEN Outcome("invalid_params", "none", r)
        ELSE Outcome(IF slackOk THEN "" ELSE "slack_error", write, r)

\* ReactionsHandler.parseReactionParams: channel_id, timestamp and emoji
\* must be present; a #name or @name is looked up in the cache.
parseReactionParams(req) ==
    IF req.channel = <<>>
      THEN [err |-> "invalid_params", id |-> <<>>, inv |-> wChannelsInv,
            refreshes |-> 0, refresh |-> "none", lookups |-> 0]
    ELSE IF ~req.paramsOk
      THEN [err |-> "invalid_params", id |-> <<>>, inv |-> wChannelsInv,
            refreshes |-> 0, refresh |-> "none", lookups |-> 0]
    ELSE IF ~IsChannelRef(req.channel)
      THEN [err |-> "", id |-> req.channel, inv |-> wChannelsInv,
            refreshes |-> 0, refresh |-> "none", lookups |-> 0]
    ELSE IF ~IsReady
      THEN [err |-> "not_found", id |-> <<>>, inv |-> wChannelsInv,
            refreshes |-> 0, refresh |-> "none", lookups |-> 0]
    ELSE IF req.channel \notin DOMAIN wChannelsInv
      THEN [err |-> "not_found", id |-> <<>>, inv |-> wChannelsInv,
            refreshes |-> 0, refresh |-> "none", lookups |-> 1]
    ELSE [err |-> "", id |-> wChannelsInv[req.channel], inv |-> wChannelsInv,
          refreshes |-> 0, refresh |-> "none", lookups |-> 1]

\* The timestamp format check that follows the channel resolution.
parseReactionParamsChecked(req) ==
    LET r == parseReactionParams(req)
    IN  IF r.err = "" /\ ~req.tsFormatOk
          THEN [r EXCEPT !.err = "invalid_params"]
          ELSE r

\* ReactionsHandler.ReactionsAddHandler / ReactionsRemoveHandler; write is
\* "react" or "unreact".  A failed Slack call is reported in the response
\* row, not as an error.
ReactionsHandlerReaction(req, write) ==
    LET r == parseReactionParamsChecked(req)
    IN  IF ~req.authed
          THEN Outcome("auth", "none", Unresolved(wChannelsInv))
        ELSE IF ~IsReady
          THEN Outcome("not_ready", "none", Unresolved(wChannelsInv))
        ELSE IF r.err # ""
          THEN Outcome(r.err, "none", r)
        ELSE Outcome("", write, r)

\* ConversationsHistoryHandler / ConversationsRepliesHandler with
\* parseParamsToolConversations; read is "history" or "replies".
ConversationsHistory(req, outcome, slackOk, read) ==
    LET r == resolveChannelID(req.channel, wChannelsInv, outcome)
    IN  IF req.channel = <<>>
          THEN Outcome("invalid_params", "none", Unresolved(wChannelsInv))
        ELSE IF ~req.paramsOk
          THEN Outcome("invalid_params", "none", Unresolved(wChannelsInv))
        ELSE IF IsChannelRef(req.channel) /\ ~IsReady
          THEN Outcome("not_found_empty_cache", "none",
                       Unresolved(wChannelsInv))
        ELSE IF r.err # ""
          THEN Outcome(r.err, "none", r)
        ELSE Outcome(IF slackOk THEN "" ELSE "slack_error", read, r)

\* The cache lookup of parseParamsToolMark and of the package-level
\* resolveChannelID: no refresh on a miss.
LookupChannelID(channel, inv) ==
    IF ~IsChannelRef(channel)
      THEN [err |-> "", id |-> channel, inv |-> inv,
            refreshes |-> 0, refresh |-> "none", lookups |-> 0]
    ELSE IF channel \notin DOMAIN inv
      THEN [err |-> "not_found", id |-> <<>>, inv |-> inv,
            refreshes |-> 0, refresh |-> "none", lookups |-> 1]
    ELSE [err |-> "", id |-> inv[channel], inv |-> inv,
          refreshes |-> 0, refresh |-> "none", lookups |-> 1]

\* ConversationsMarkHandler with parseParamsToolMark.
ConversationsMark(req, slackOk) ==
    LET toolConfig == Getenv(wEnv, "SLACK_MCP_MARK_TOOL")
        r == LookupChannelID(req.channel, wChannelsInv)
    IN  IF toolConfig \notin {<<"1">>, <<"true">>, <<"yes">>}
          THEN Outcome("disabled", "none", Unresolved(wChannelsInv))
        ELSE IF req.channel = <<>>
          THEN Outcome("invalid_params", "none", Unresolved(wChannelsInv))
        ELSE IF r.err # ""
          THEN Outcome(r.err, "none", r)
        ELSE Outcome(IF slackOk THEN "" ELSE "slack_error", "mark", r)

\* ChannelsHandler.ChannelMembersHandler with the package-level
\* resolveChannelID.
ChannelMembers(req, slackOk) ==
    LET r == LookupChannelID(req.channel, wChannelsInv)
    IN  IF req.channel = <<>>
          THEN Outcome("invalid_params", "none", Unresolved(wChannelsInv))
        ELSE IF IsChannelRef(req.channel) /\ ~IsReady
          THEN Outcome("not_found_empty_cache", "none",
                       Unresolved(wChannelsInv))
        ELSE IF r.err # ""
          THEN Outcome(r.err, "none", r)
        ELSE Outcome(IF slackOk THEN "" ELSE "slack_error", "members", r)

\* Variant of ErrorMessage: the cause of a failed refresh is left out.
ErrorMessageNoCause(err) ==
    IF err \in {"not_found", "not_found_rate_limited", "refresh_failed"}
      THEN <<"channel ", "%q", " not found">>
    ELSE IF err = "not_found_empty_cache"
      THEN <<"channel ", "%q", " not found", " in empty cache">>
    ELSE <<err>>

\* The text of the errors of channel resolution.
ErrorMessage(err) ==
    IF err = "not_found"
      THEN <<"channel ", "%q", " not found">>
    ELSE IF err = "not_found_rate_limited"
      THEN <<"channel ", "%q", " not found",
             " (cache refresh was ", "rate-limited", ", try again later)">>
    ELSE IF err = "refresh_failed"
      THEN <<"channel ", "%q", " not found",
             " and cache refresh failed: ", "%w">>
    ELSE IF err = "not_found_empty_cache"
      THEN <<"channel ", "%q", " not found", " in empty cache">>
    ELSE <<err>>

\* The allow/deny lists the write-tool handlers are run with.
WriteEnvValues == {<<>>, <<"true">>, <<"C1">>, <<"!", "C1">>}

WriteEnvVarNames ==
    {"SLACK_MCP_ADD_MESSAGE_TOOL", "SLACK_MCP_REACTION_TOOL",
     "SLACK_MCP_ENABLED_TOOLS", "SLACK_MCP_MARK_TOOL"}

\* An environment of the handlers.
WriteEnv(a, b, e, k) ==
    [n \in WriteEnvVarNames |->
        IF n = "SLACK_MCP_ADD_MESSAGE_TOOL" THEN a
        ELSE IF n = "SLACK_MCP_REACTION_TOOL" THEN b
        ELSE IF n = "SLACK_MCP_ENABLED_TOOLS" THEN e
        ELSE k]

\* The environments the write tools are run with.  Each handler reads its
\* own tool setting and SLACK_MCP_ENABLED_TOOLS, so the two tool settings
\* are varied one at a time, each with every SLACK_MCP_ENABLED_TOOLS.
WriteEnvs ==
    {WriteEnv(a, <<>>, e, <<>>) :
        a \in WriteEnvValues, e \in EnabledToolsValues}
    \cup {WriteEnv(<<>>, b, e, <<>>) :
        b \in WriteEnvValues, e \in EnabledToolsValues}

\* The environments channel resolution is exercised with: both write tools
\* enabled for every channel, the mark tool unset, on or misconfigured.
ResolveEnvs ==
    {WriteEnv(<<"true">>, <<"true">>, <<>>, k) :
        k \in {<<>>, <<"true">>, <<"C1">>}}

WriteInit ==
    /\ WriteOthersIdle
    /\ wEnv \in WriteEnvs
    /\ wUsersReady \in BOOLEAN
    /\ wChannelsReady \in BOOLEAN
    /\ wChannelsInv \in ChannelCaches
    /\ wLast = NoInvocation

\* The record of an invocation.
Invocation(handler, tool, req, o) ==
    [handler |-> handler, tool |-> tool, ref |-> req.channel,
     paramsOk |-> req.paramsOk, channel |-> o.channel,
     err |-> o.err, issued |-> o.issued, refreshes |-> o.refreshes,
     refresh |-> o.refresh, lookups |-> o.lookups]

\* The requests whose timestamp format and authentication do not matter to
\* the handler (it checks neither).
PlainRequests == {r \in ToolRequests : r.tsFormatOk /\ r.authed}

\* The refresh outcomes a call can meet: ForceRefreshChannels is called
\* only for a reference that misses the cache.
OutcomesFor(channel) ==
    IF IsChannelRef(channel) /\ channel \notin DOMAIN wChannelsInv
      THEN RefreshOutcomes
      ELSE {[kind |-> "ok", inv |-> wChannelsInv]}

\* What the Slack call answers, when the request can get that far.
SlackAnswers(req) == IF req.channel = <<>> THEN {TRUE} ELSE BOOLEAN

WriteAddMessage ==
    \E req \in PlainRequests :
      \E outcome \in OutcomesFor(req.channel), slackOk \in SlackAnswers(req) :
        LET o == ConversationsAddMessage(req, outcome, slackOk)
        IN  /\ wLast' = Invocation("ConversationsHandler",
                                   "conversations_add_message", req, o)
            /\ wChannelsInv' = o.inv
            /\ UNCHANGED <<wEnv, wUsersReady, wChannelsReady>>
            /\ UNCHANGED writeOthers

WriteConversationsReactionAdd ==
    \E req \in PlainRequests :
      \E outcome \in OutcomesFor(req.channel), slackOk \in SlackAnswers(req) :
        LET o == ConversationsReaction(req, outcome, slackOk, "react")
        IN  /\ wLast' = Invocation("ConversationsHandler", "reactions_add",
                                   req, o)
            /\ wChannelsInv' = o.inv
            /\ UNCHANGED <<wEnv, wUsersReady, wChannelsReady>>
            /\ UNCHANGED writeOthers

WriteConversationsReactionRemove ==
    \E req \in PlainRequests :
      \E outcome \in OutcomesFor(req.channel), slackOk \in SlackAnswers(req) :
        LET o == ConversationsReaction(req, outcome, slackOk, "unreact")
        IN  /\ wLast' = Invocation("ConversationsHandler", "reactions_remove",
                                   req, o)
            /\ wChannelsInv' = o.inv
            /\ UNCHANGED <<wEnv, wUsersReady, wChannelsReady>>
            /\ UNCHANGED writeOthers

WriteReactionsAdd ==
    \E req \in ToolRequests :
        LET o == ReactionsHandlerReaction(req, "react")
        IN  /\ wLast' = Invocation("ReactionsHandler", "reactions_add", req, o)
            /\ wChannelsInv' = o.inv
            /\ UNCHANGED <<wEnv, wUsersReady, wChannelsReady>>
            /\ UNCHANGED writeOthers

WriteReactionsRemove ==
    \E req \in ToolRequests :
        LET o == ReactionsHandlerReaction(req, "unreact")
        IN  /\ wLast' = Invocation("ReactionsHandler", "reactions_remove",
                                   req, o)
            /\ wChannelsInv' = o.inv
            /\ UNCHANGED <<wEnv, wUsersReady, wChannelsReady>>
            /\ UNCHANGED writeOthers

WriteHistory ==
    \E req \in PlainRequests, read \in {"history", "replies"} :
      \E outcome \in OutcomesFor(req.channel), slackOk \in SlackAnswers(req) :
        LET o == ConversationsHistory(req, outcome, slackOk, read)
        IN  /\ wLast' = Invocation("ConversationsHandler",
                                   IF read = "history"
                                     THEN "conversations_history"
                                     ELSE "conversations_replies", req, o)
            /\ wChannelsInv' = o.inv
            /\ UNCHANGED <<wEnv, wUsersReady, wChannelsReady>>
            /\ UNCHANGED writeOthers

WriteMark ==
    \E req \in PlainRequests, slackOk \in BOOLEAN :
        LET o == ConversationsMark(req, slackOk)
        IN  /\ req.paramsOk
            /\ wLast' = Invocation("ConversationsHandler",
                                   "conversations_mark", req, o)
            /\ wChannelsInv' = o.inv
            /\ UNCHANGED <<wEnv, wUsersReady, wChannelsReady>>
            /\ UNCHANGED writeOthers

WriteChannelMembers ==
    \E req \in PlainRequests, slackOk \in BOOLEAN :
        LET o == ChannelMembers(req, slackOk)
        IN  /\ req.paramsOk
            /\ wLast' = Invocation("ChannelsHandler", "channel_members",
                                   req, o)
            /\ wChannelsInv' = o.inv
            /\ UNCHANGED <<wEnv, wUsersReady, wChannelsReady>>
            /\ UNCHANGED writeOthers

WriteNext ==
    \/ WriteAddMessage
    \/ WriteConversationsReactionAdd
    \/ WriteConversationsReactionRemove
    \/ WriteReactionsAdd
    \/ WriteReactionsRemove

SpecWrite == WriteInit /\ [][WriteNext]_vars

ResolveInit ==
    /\ WriteOthersIdle
    /\ wEnv \in ResolveEnvs
    /\ wUsersReady \in BOOLEAN
    /\ wChannelsReady \in BOOLEAN
    /\ wChannelsInv \in ChannelCaches
    /\ wLast = NoInvocation

ResolveNext ==
    \/ WriteNext
    \/ WriteHistory
    \/ WriteMark
    \/ WriteChannelMembers

SpecResolve == ResolveInit /\ [][ResolveNext]_vars

\* The env var whose allow/deny list governs a write tool.
PolicyEnvVar(tool) == WriteToolEnvVar[tool]

\* C7: conversations_add_message, reactions_add and reactions_remove issue
\* their Slack write (post message, add reaction, remove reaction) only if
\* the resolved channel is allowed by the tool's env-var allow/deny list.
C7_WriteOnlyIfAllowed ==
    (wLast.tool \in WriteTools /\ wLast.issued # "none")
        => isChannelAllowedForConfig(wLast.channel,
                                     Getenv(wEnv, PolicyEnvVar(wLast.tool)))

\* The same, for the handlers of ConversationsHandler alone.
ConversationsHandlerWritesAllowed ==
    (/\ wLast.handler = "ConversationsHandler"
     /\ wLast.tool \in WriteTools
     /\ wLast.issued # "none")
        => isChannelAllowedForConfig(wLast.channel,
                                     Getenv(wEnv, PolicyEnvVar(wLast.tool)))

\* The errors that say the caches are not ready.
NotReadyErrors == {"not_ready", "not_found_empty_cache"}

\* C16: with an empty channels cache and a channels refresh that returns the
\* rate-limit error, history(channel_id="#general") returns an error whose
\* message mentions that the refresh was rate-limited, unlike the message of
\* an ordinary "not found"; no history is fetched.
C16_RateLimitedDistinguishable ==
    (/\ wLast.tool = "conversations_history"
     /\ wLast.ref = <<"#", "general">>
     /\ wLast.refresh = "rate_limited")
        => /\ wLast.err = "not_found_rate_limited"
           /\ wLast.issued = "none"
           /\ Contains(ErrorMessage(wLast.err), <<"rate-limited">>)
           /\ ~Contains(ErrorMessage("not_found"), <<"rate-limited">>)
           /\ ErrorMessage(wLast.err) # ErrorMessage("not_found")

C16_Witness ==
    /\ wLast.tool = "conversations_history"
    /\ wLast.ref = <<"#", "general">>
    /\ wLast.refresh = "rate_limited"
    /\ wChannelsInv = <<>>
    /\ IsReady

\* C17: wherever a handler resolves a #name or @handle, "not found" is
\* returned only after a miss, one ForceRefreshChannels and a second miss.
C17_RefreshOnMiss ==
    (IsChannelRef(wLast.ref) /\ wLast.err = "not_found")
        => wLast.refreshes = 1 /\ wLast.lookups = 2

\* The same, for the handlers that go through
\* ConversationsHandler.resolveChannelID.
ConversationsResolverRefreshesOnMiss ==
    (/\ wLast.handler = "ConversationsHandler"
     /\ wLast.tool # "conversations_mark"
     /\ IsChannelRef(wLast.ref)
     /\ wLast.err = "not_found")
        => wLast.refreshes = 1 /\ wLast.lookups = 2

\* C18: while the users cache or the channels cache is not ready, a call
\* addressed by channel ID is not refused for the caches' sake, and a call
\* addressed by name is.
C18_NotReadyGating ==
    (~IsReady /\ wLast.handler # "none" /\ wLast.ref # <<>>)
        => IF IsChannelRef(wLast.ref)
             THEN wLast.err \in NotReadyErrors \cup {"auth", "disabled",
                                                     "invalid_params"}
             ELSE wLast.err \notin NotReadyErrors

\* The same, for history and replies alone.
HistoryGatesNamesOnly ==
    (/\ ~IsReady
     /\ wLast.tool \in {"conversations_history", "conversations_replies"}
     /\ wLast.ref # <<>>
     /\ wLast.paramsOk)
        => (wLast.err \in NotReadyErrors <=> IsChannelRef(wLast.ref))

\* A call by channel ID is served while the caches are not ready.
HistoryByIDServedWhenNotReady ==
    /\ ~IsReady
    /\ wLast.tool = "conversations_history"
    /\ wLast.ref = <<"C1">>
    /\ wLast.issued = "history"
    /\ wLast.err = ""

(***************************************************************************)
(* pkg/server/auth/sse_auth.go: the auth boundary of a tool call           *)
(***************************************************************************)

\* Longest Authorization header of the auth specification, in symbols.
MaxHeaderLen == 3

\* The symbols of a header: the scheme, a blank, the static key "K", an MCP
\* token with a Slack token behind it ("M"), an MCP token without one ("N"),
\* an unknown token ("X") and a Slack token prefix.
HeaderAlphabet == {"Bearer ", " ", "K", "M", "N", "X", "xoxp-"}

SlackTokenPrefixes == {"xoxp-", "xoxc-", "xoxb-", "xoxd-"}

ApiKeys == {<<>>, <<"K">>, <<"N">>}

\* The token stores: empty, or holding an authorization-code token (with a
\* Slack token) and a client-credentials token (SlackToken "").
TokenStores ==
    {<<>>,
     [t \in {<<"M">>, <<"N">>} |->
        IF t = <<"M">> THEN <<"xoxp-", "S">> ELSE <<>>]}

Transports == {"stdio", "sse", "http", "ws"}

\* isSlackToken
isSlackToken(token) ==
    LET t == TrimSpace(TrimPrefix(token, <<"Bearer ">>))
    IN  \E p \in SlackTokenPrefixes : HasPrefix(t, <<p>>)

\* GetSlackToken(ctx), with the caller's slackToken != "" test
HasSlackToken(ctx) == ctx.hasSlackToken /\ ctx.slackToken # <<>>

\* The token AuthFromRequest looks at.
RequestToken(authHeader) == TrimSpace(TrimPrefix(authHeader, <<"Bearer ">>))

\* globalTokenStore.GetToken(token) returned a TokenInfo.
StoreHit(hasStore, store, token) == hasStore /\ token \in DOMAIN store

\* AuthFromRequest: the context built from the Authorization header.
AuthFromRequest(authHeader, hasStore, store) ==
    LET token == RequestToken(authHeader)
    IN  IF authHeader = <<>> THEN EmptyCtx
        ELSE IF isSlackToken(token)
          THEN [EmptyCtx EXCEPT !.hasSlackToken = TRUE, !.slackToken = token]
        ELSE IF StoreHit(hasStore, store, token)
          THEN IF store[token] # <<>>
                 THEN [hasAuthKey |-> TRUE, authKey |-> authHeader,
                       hasSlackToken |-> TRUE, slackToken |-> store[token]]
                 ELSE [EmptyCtx EXCEPT !.hasAuthKey = TRUE,
                                       !.authKey = authHeader]
        ELSE [EmptyCtx EXCEPT !.hasAuthKey = TRUE, !.authKey = authHeader]

\* subtle.ConstantTimeCompare(keyA, keyB) == 1
ConstantTimeCompareLengthOnly(keyA, keyB) == Len(keyA) = Len(keyB)

ConstantTimeCompare(keyA, keyB) == keyA = keyB

\* The configured key: SLACK_MCP_API_KEY, else SLACK_MCP_SSE_API_KEY.
ConfiguredKey(key, sseKey) == IF key # <<>> THEN key ELSE sseKey

\* validateToken: [ok, err]
validateToken(ctx, key, sseKey) ==
    LET keyA == ConfiguredKey(key, sseKey)
        keyB == TrimPrefix(ctx.authKey, <<"Bearer ">>)
    IN  IF HasSlackToken(ctx) THEN [ok |-> TRUE, err |-> ""]
        ELSE IF keyA = <<>> THEN [ok |-> TRUE, err |-> ""]
        ELSE IF ~ctx.hasAuthKey THEN [ok |-> FALSE, err |-> "missing auth"]
        ELSE IF ~ConstantTimeCompare(keyA, keyB)
          THEN [ok |-> FALSE, err |-> "invalid auth token"]
        ELSE [ok |-> TRUE, err |-> ""]

\* IsAuthenticated: [ok, err]
IsAuthenticated(ctx, transport, key, sseKey) ==
    IF transport = "stdio" THEN [ok |-> TRUE, err |-> ""]
    ELSE IF transport \in {"sse", "http"}
      THEN LET v == validateToken(ctx, key, sseKey)
           IN  IF v.err # ""
                 THEN [ok |-> FALSE, err |-> "authentication error"]
               ELSE IF ~v.ok
                 THEN [ok |-> FALSE, err |-> "unauthorized request"]
               ELSE [ok |-> TRUE, err |-> ""]
    ELSE [ok |-> FALSE, err |-> "unknown transport type"]

AuthInit ==
    /\ AuthOthersIdle
    /\ aKey \in ApiKeys
    /\ aSseKey \in {<<>>, <<"K">>}
    /\ aHasStore \in BOOLEAN
    /\ aStore \in TokenStores
    /\ (~aHasStore => aStore = <<>>)
    /\ aTransport \in Transports
    /\ aHeader \in StringsUpTo(HeaderAlphabet, MaxHeaderLen)
    /\ (aTransport \notin {"sse", "http"} => aHeader = <<>>)
    /\ aPc = "request"
    /\ aCtx = EmptyCtx
    /\ aAuthenticated = FALSE
    /\ aErr = ""
    /\ aHandlerRan = FALSE

\* The HTTP context function of the SSE and HTTP servers.
AuthHTTPContext ==
    /\ aPc = "request"
    /\ aTransport \in {"sse", "http"}
    /\ aCtx' = AuthFromRequest(aHeader, aHasStore, aStore)
    /\ aPc' = "context"
    /\ UNCHANGED <<aKey, aSseKey, aHasStore, aStore, aTransport, aHeader,
                   aAuthenticated, aErr, aHandlerRan>>
    /\ UNCHANGED authOthers

\* Any other transport hands the call to the middleware with its own context.
AuthPlainContext ==
    /\ aPc = "request"
    /\ aTransport \notin {"sse", "http"}
    /\ aPc' = "context"
    /\ UNCHANGED <<aKey, aSseKey, aHasStore, aStore, aTransport, aHeader,
                   aCtx, aAuthenticated, aErr, aHandlerRan>>
    /\ UNCHANGED authOthers

\* BuildMiddleware: the tool handler runs only behind IsAuthenticated.
AuthMiddleware ==
    /\ aPc = "context"
    /\ LET r == IsAuthenticated(aCtx, aTransport, aKey, aSseKey)
       IN  /\ aAuthenticated' = r.ok
           /\ aErr' = r.err
           /\ aHandlerRan' = r.ok
    /\ aPc' = "done"
    /\ UNCHANGED <<aKey, aSseKey, aHasStore, aStore, aTransport, aHeader,
                   aCtx>>
    /\ UNCHANGED authOthers

AuthNext ==
    \/ AuthHTTPContext
    \/ AuthPlainContext
    \/ AuthMiddleware

SpecAuth == AuthInit /\ [][AuthNext]_vars

\* The bearer token a header presents: the header without its scheme.
PresentedToken(authHeader) == TrimPrefix(authHeader, <<"Bearer ">>)

\* C8: on SSE/HTTP with a static key configured, a request whose token is
\* not Slack-prefixed and misses the MCP token store is authenticated iff it
\* has an Authorization header and the token presented equals the key; the
\* tool handler runs iff the request is authenticated.
C8_ApiKeyBoundary ==
    (/\ aPc = "done"
     /\ aTransport \in {"sse", "http"}
     /\ ConfiguredKey(aKey, aSseKey) # <<>>
     /\ ~isSlackToken(RequestToken(aHeader))
     /\ ~StoreHit(aHasStore, aStore, RequestToken(aHeader)))
        => /\ aAuthenticated <=>
                (/\ aHeader # <<>>
                 /\ PresentedToken(aHeader) = ConfiguredKey(aKey, aSseKey))
           /\ aHandlerRan <=> aAuthenticated
           /\ (aHeader = <<>> => ~aHandlerRan)

C8_Witness ==
    /\ aPc = "done"
    /\ aTransport = "http"
    /\ aKey = <<"K">>
    /\ aHasStore
    /\ aStore # <<>>
    /\ aHeader = <<"Bearer ", "X">>
    /\ ~aAuthenticated
    /\ ~aHandlerRan

\* C9: on SSE/HTTP a bearer token that hits the MCP token store is
\* authenticated, with the TokenInfo's Slack token attached to the context
\* iff it has one, whether or not a static key is configured.
C9_McpTokenAuthenticated ==
    (/\ aPc = "done"
     /\ aTransport \in {"sse", "http"}
     /\ aHeader # <<>>
     /\ ~isSlackToken(RequestToken(aHeader))
     /\ StoreHit(aHasStore, aStore, RequestToken(aHeader)))
        => /\ aAuthenticated
           /\ HasSlackToken(aCtx) <=> aStore[RequestToken(aHeader)] # <<>>

\* The same for the tokens that carry a Slack token.
McpTokenWithSlackTokenAuthenticated ==
    (/\ aPc = "done"
     /\ aTransport \in {"sse", "http"}
     /\ aHeader # <<>>
     /\ ~isSlackToken(RequestToken(aHeader))
     /\ StoreHit(aHasStore, aStore, RequestToken(aHeader))
     /\ aStore[RequestToken(aHeader)] # <<>>)
        => aAuthenticated /\ aCtx.slackToken = aStore[RequestToken(aHeader)]

(***************************************************************************)
(* pkg/oauth: InMemoryStore, its expiry checks and its cleanup loop        *)
(***************************************************************************)

\* time.Now().Add(90 * 24 * time.Hour), in minutes
TokenTTL == 129600

\* 10 * time.Minute
StateTTL == 10

\* time.NewTicker(5 * time.Minute)
CleanupInterval == 5

\* How often the clock is advanced in a behaviour.
MaxAdvances == 3

\* The steps of the clock, in minutes.
ClockSteps == {1, StateTTL, TokenTTL}

\* The access tokens GenerateToken returns and the Slack token behind each:
\* "M" is issued by the callback, "N" by the client-credentials grant.
AccessTokens == {"M", "N"}

CsrfStates == {"S1"}

\* f with key k set to v
MapPut(f, k, v) == [x \in DOMAIN f \cup {k} |-> IF x = k THEN v ELSE f[x]]

\* delete(f, k) for every k that satisfies drop
MapKeep(f, keep) == [x \in {k \in DOMAIN f : keep[k]} |-> f[x]]

\* !info.ExpiresAt.IsZero() && now.After(info.ExpiresAt)
TokenExpiredNever(expiresAt, now) == FALSE

TokenExpired(expiresAt, now) == expiresAt # 0 /\ now > expiresAt

\* now.Sub(info.CreatedAt) > 10*time.Minute
StateTooOld(createdAt, now) == now - createdAt > StateTTL

\* InMemoryStore.GetToken returned a TokenInfo.
GetToken(tokens, accessToken, now) ==
    /\ accessToken \in DOMAIN tokens
    /\ ~TokenExpired(tokens[accessToken].expiresAt, now)

\* InMemoryStore.ValidateState
ValidateState(states, state, now) ==
    /\ state \in DOMAIN states
    /\ ~StateTooOld(states[state], now)

StoreInit ==
    /\ StoreOthersIdle
    /\ sNow = 0
    /\ sAdvances = 0
    /\ sTokens = <<>>
    /\ sStates = <<>>
    /\ sNextCleanup = CleanupInterval
    /\ sLast = NoStoreCall

\* SaveToken with ExpiresAt: time.Now().Add(90 * 24 * time.Hour)
SaveNewToken(accessToken, slackToken) ==
    sTokens' = MapPut(sTokens, accessToken,
                      [expiresAt |-> sNow + TokenTTL,
                       slackToken |-> slackToken,
                       issuedAt |-> sNow])

\* Handler.HandleAuthorize: SaveState
StoreHandleAuthorize ==
    \E state \in CsrfStates :
        /\ sStates' = MapPut(sStates, state, sNow)
        /\ UNCHANGED <<sNow, sAdvances, sTokens, sNextCleanup, sLast>>
        /\ UNCHANGED storeOthers

\* Handler.HandleCallback: ValidateState, DeleteState, the code exchange
\* with Slack, SaveToken, for a request served alone; SpecCallback takes
\* the store calls of concurrent requests one by one.
StoreHandleCallback ==
    \E state \in CsrfStates, exchangeOk \in BOOLEAN :
        LET valid == ValidateState(sStates, state, sNow)
        IN  /\ sLast' = [op |-> "ValidateState", key |-> state, hit |-> valid,
                         at |-> sNow,
                         since |-> IF state \in DOMAIN sStates
                                     THEN sStates[state] ELSE 0]
            /\ sStates' = IF valid
                            THEN MapKeep(sStates,
                                         [k \in DOMAIN sStates |-> k # state])
                            ELSE sStates
            /\ IF valid /\ exchangeOk
                 THEN SaveNewToken("M", "xoxp")
                 ELSE UNCHANGED sTokens
            /\ UNCHANGED <<sNow, sAdvances, sNextCleanup>>
            /\ UNCHANGED storeOthers

\* Handler.handleClientCredentials: a token with SlackToken "".
StoreClientCredentials ==
    /\ SaveNewToken("N", "")
    /\ UNCHANGED <<sNow, sAdvances, sStates, sNextCleanup, sLast>>
    /\ UNCHANGED storeOthers

\* InMemoryStore.GetToken, as AuthFromRequest calls it.
StoreGetToken ==
    \E accessToken \in AccessTokens :
        /\ sLast' = [op |-> "GetToken", key |-> accessToken,
                     hit |-> GetToken(sTokens, accessToken, sNow),
                     at |-> sNow,
                     since |-> IF accessToken \in DOMAIN sTokens
                                 THEN sTokens[accessToken].issuedAt ELSE 0]
        /\ UNCHANGED <<sNow, sAdvances, sTokens, sStates, sNextCleanup>>
        /\ UNCHANGED storeOthers

\* Time passes.
StoreAdvance ==
    \E d \in ClockSteps :
        /\ sAdvances < MaxAdvances
        /\ sAdvances' = sAdvances + 1
        /\ sNow' = sNow + d
        /\ UNCHANGED <<sTokens, sStates, sNextCleanup, sLast>>
        /\ UNCHANGED storeOthers

\* cleanupLoop: InMemoryStore.Cleanup on a tick of the 5-minute ticker.
StoreCleanup ==
    /\ sNow >= sNextCleanup
    /\ sTokens' = MapKeep(sTokens,
                          [k \in DOMAIN sTokens |->
                              ~TokenExpired(sTokens[k].expiresAt, sNow)])
    /\ sStates' = MapKeep(sStates,
                          [k \in DOMAIN sStates |->
                              ~StateTooOld(sStates[k], sNow)])
    /\ sNextCleanup' = ((sNow \div CleanupInterval) + 1) * CleanupInterval
    /\ UNCHANGED <<sNow, sAdvances, sLast>>
    /\ UNCHANGED storeOthers

StoreNext ==
    \/ StoreHandleAuthorize
    \/ StoreHandleCallback
    \/ StoreClientCredentials
    \/ StoreGetToken
    \/ StoreAdvance
    \/ StoreCleanup

SpecStore == StoreInit /\ [][StoreNext]_vars

\* C10: GetToken returns no token later than TokenTTL (90 days) after it was
\* issued, and every stored token expires TokenTTL after its issuance;
\* ValidateState accepts no state later than StateTTL (10 minutes) after it
\* was saved - whether or not Cleanup has removed the entry.
C10_ExpiryCaps ==
    /\ (sLast.op = "GetToken" /\ sLast.hit)
        => sLast.at - sLast.since <= TokenTTL
    /\ (sLast.op = "ValidateState" /\ sLast.hit)
        => sLast.at - sLast.since <= StateTTL
    /\ \A t \in DOMAIN sTokens :
        sTokens[t].expiresAt = sTokens[t].issuedAt + TokenTTL

\* An expired token that Cleanup has not removed yet is not returned.
C10_Witness ==
    /\ sLast.op = "GetToken"
    /\ ~sLast.hit
    /\ sLast.key \in DOMAIN sTokens
    /\ sLast.at = sNow
    /\ sNow > sTokens[sLast.key].expiresAt
    /\ sNow >= sNextCleanup

(***************************************************************************)
(* Concurrent resolveChannelID calls that miss the cache, and the          *)
(* single-flight channels refresh of ApiProvider.ForceRefreshChannels      *)
(***************************************************************************)

\* The number of concurrent callers.
MaxCallers == 3

Callers == 1..MaxCallers

\* The reference every caller resolves.
WantedChannel == <<"#", "general">>

NewCaller == [pc |-> "lookup", flight |-> 0, led |-> FALSE, err |-> ""]

\* A ForceRefreshChannels call joins the refresh in flight, if there is one.
JoinsInFlightNever(inFlight) == FALSE

JoinsInFlight(inFlight) == inFlight

\* resolveChannelID's error for a refresh result.
RefreshError(kind) ==
    IF kind = "error" THEN "refresh_failed"
    ELSE IF kind = "rate_limited" THEN "not_found_rate_limited"
    ELSE ""

\* What a caller does once ForceRefreshChannels has returned kind.
AfterRefresh(caller, kind) ==
    IF RefreshError(kind) # ""
      THEN [caller EXCEPT !.pc = "done", !.err = RefreshError(kind)]
      ELSE [caller EXCEPT !.pc = "lookup2"]

RefreshInit ==
    /\ RefreshOthersIdle
    /\ fCallers = [c \in Callers |-> NewCaller]
    /\ fInFlight = FALSE
    /\ fApiCalls = 0
    /\ fFlights = <<>>
    /\ fCache \in ChannelCaches

\* resolveChannelID: the first lookup in ChannelsInv.
RefreshFirstLookup ==
    \E c \in Callers :
        /\ fCallers[c].pc = "lookup"
        /\ fCallers' = [fCallers EXCEPT ![c].pc =
                            IF WantedChannel \in DOMAIN fCache
                              THEN "done" ELSE "refresh"]
        /\ UNCHANGED <<fInFlight, fApiCalls, fFlights, fCache>>
        /\ UNCHANGED refreshOthers

\* ForceRefreshChannels with no refresh in flight: the caller starts one and
\* makes the conversations.list call.
RefreshStart ==
    \E c \in Callers :
        /\ fCallers[c].pc = "refresh"
        /\ ~JoinsInFlight(fInFlight)
        /\ fInFlight' = TRUE
        /\ fApiCalls' = fApiCalls + 1
        /\ fFlights' = Append(fFlights, "pending")
        /\ fCallers' = [fCallers EXCEPT ![c].pc = "leading",
                                        ![c].flight = Len(fFlights) + 1,
                                        ![c].led = TRUE]
        /\ UNCHANGED fCache
        /\ UNCHANGED refreshOthers

\* ForceRefreshChannels with a refresh in flight: the caller waits for it.
RefreshJoin ==
    \E c \in Callers :
        /\ fCallers[c].pc = "refresh"
        /\ JoinsInFlight(fInFlight)
        /\ fCallers' = [fCallers EXCEPT ![c].pc = "waiting",
                                        ![c].flight = Len(fFlights)]
        /\ UNCHANGED <<fInFlight, fApiCalls, fFlights, fCache>>
        /\ UNCHANGED refreshOthers

\* The refresh completes: the cache is replaced on success only.
RefreshComplete ==
    \E c \in Callers, outcome \in RefreshOutcomes :
        /\ fCallers[c].pc = "leading"
        /\ fFlights[fCallers[c].flight] = "pending"
        /\ fFlights' = [fFlights EXCEPT ![fCallers[c].flight] = outcome.kind]
        /\ fInFlight' = FALSE
        /\ fCache' = IF outcome.kind = "ok" THEN outcome.inv ELSE fCache
        /\ fCallers' = [fCallers EXCEPT ![c] = AfterRefresh(@, outcome.kind)]
        /\ UNCHANGED fApiCalls
        /\ UNCHANGED refreshOthers

\* A waiting caller receives the result of the refresh it joined.
RefreshWake ==
    \E c \in Callers :
        /\ fCallers[c].pc = "waiting"
        /\ fFlights[fCallers[c].flight] # "pending"
        /\ fCallers' = [fCallers EXCEPT ![c] =
                            AfterRefresh(@, fFlights[fCallers[c].flight])]
        /\ UNCHANGED <<fInFlight, fApiCalls, fFlights, fCache>>
        /\ UNCHANGED refreshOthers

\* resolveChannelID: the second lookup, after a successful refresh.
RefreshSecondLookup ==
    \E c \in Callers :
        /\ fCallers[c].pc = "lookup2"
        /\ fCallers' = [fCallers EXCEPT ![c].pc = "done",
                                        ![c].err =
                            IF WantedChannel \in DOMAIN fCache
                              THEN "" ELSE "not_found"]
        /\ UNCHANGED <<fInFlight, fApiCalls, fFlights, fCache>>
        /\ UNCHANGED refreshOthers

RefreshNext ==
    \/ RefreshFirstLookup
    \/ RefreshStart
    \/ RefreshJoin
    \/ RefreshComplete
    \/ RefreshWake
    \/ RefreshSecondLookup

SpecRefresh == RefreshInit /\ [][RefreshNext]_vars

\* The callers that have called ForceRefreshChannels.
Refreshers == {c \in Callers : fCallers[c].flight # 0}

MaxChannelsBound == 3

\* maxScan is at least 50
MinMaxScan == 50

\* The conversations of the workspace, in the order Slack returns them.
UnreadIMs == <<"D1", "D2">>
UnreadMPIMs == <<"G1">>
UnreadChannels == <<"K1", "K2">>

UnreadIDs == {"D1", "D2", "G1", "K1", "K2"}

\* The facade's predicates on the token kind.
IsOAuth(kind) == kind \in {"xoxp", "xoxb"}

IsBotTokenNever(kind) == FALSE

IsBotToken(kind) == kind = "xoxb"

\* The priority map of sortChannelsByPriority.
ChannelPriorityInternalFirst(type) ==
    IF type = "dm" THEN 0
    ELSE IF type = "group_dm" THEN 1
    ELSE IF type = "partner" THEN 3
    ELSE IF type = "internal" THEN 2
    ELSE 0

ChannelPriority(type) ==
    IF type = "dm" THEN 0
    ELSE IF type = "group_dm" THEN 1
    ELSE IF type = "partner" THEN 2
    ELSE IF type = "internal" THEN 3
    ELSE 0

\* sort.Slice with less = priority(i) < priority(j): some permutation of
\* the slice that is ordered by less; the order of equal elements is
\* whatever the algorithm leaves.
SortSliceOutcomes(channels) ==
    LET n == Len(channels)
        perms == {[i \in 1..n |-> channels[p[i]]] : p \in Permutations(1..n)}
    IN  {q \in perms :
            \A i \in 1..(n - 1) :
                ~(ChannelPriority(q[i + 1].type) < ChannelPriority(q[i].type))}

\* Is the channel kept by the channel_types filter?
TypeWanted(channelTypes, type) == channelTypes = "all" \/ channelTypes = type

\* The type of a public or private channel.
ChannelTypeOf(ws, id) == IF ws[id].extShared THEN "partner" ELSE "internal"

\* One loop of processClientCountsResponse over the snapshots ids, all of
\* type typeOf[id].
RECURSIVE CollectSnapshots(_, _, _, _, _, _)
CollectSnapshots(ids, i, typeOf, ws, muted, channelTypes) ==
    IF i > Len(ids) THEN <<>>
    ELSE LET id == ids[i]
             rest == CollectSnapshots(ids, i + 1, typeOf, ws, muted,
                                      channelTypes)
         IN  IF ~ws[id].hasUnreads \/ id \in muted
                \/ ~TypeWanted(channelTypes, typeOf[id])
               THEN rest
               ELSE <<[id |-> id, type |-> typeOf[id]]>> \o rest

\* The types processClientCountsResponse and the scan give the channels.
TypesOf(ws) ==
    [id \in UnreadIDs |->
        IF id \in {"D1", "D2"} THEN "dm"
        ELSE IF id = "G1" THEN "group_dm"
        ELSE ChannelTypeOf(ws, id)]

\* The three loops of processClientCountsResponse: channels, MPIMs, IMs.
CollectClientCounts(ws, muted, channelTypes) ==
    CollectSnapshots(UnreadChannels, 1, TypesOf(ws), ws, muted, channelTypes)
        \o CollectSnapshots(UnreadMPIMs, 1, TypesOf(ws), ws, muted,
                            channelTypes)
        \o CollectSnapshots(UnreadIMs, 1, TypesOf(ws), ws, muted, channelTypes)

\* if len(unreadChannels) > params.maxChannels { truncate }
CapChannels(channels, maxChannels) ==
    IF Len(channels) > maxChannels
      THEN SubSeq(channels, 1, maxChannels)
      ELSE channels

\* scanTypeGroupForUnreads over one page ids: the channels found within
\* the budget and the scan cap.
RECURSIVE ScanTypeGroup(_, _, _, _, _, _, _, _, _)
ScanTypeGroup(ids, i, found, scanned, budget, typeOf, ws, muted, channelTypes) ==
    LET maxScan == IF budget * 2 < MinMaxScan THEN MinMaxScan ELSE budget * 2
    IN  IF i > Len(ids) \/ Len(found) >= budget \/ scanned >= maxScan
          THEN found
        ELSE IF ids[i] \in muted
          THEN ScanTypeGroup(ids, i + 1, found, scanned, budget, typeOf, ws,
                             muted, channelTypes)
        ELSE IF ~ws[ids[i]].hasUnreads
                \/ ~TypeWanted(channelTypes, typeOf[ids[i]])
          THEN ScanTypeGroup(ids, i + 1, found, scanned + 1, budget, typeOf,
                             ws, muted, channelTypes)
        ELSE ScanTypeGroup(ids, i + 1,
                           Append(found, [id |-> ids[i],
                                          type |-> typeOf[ids[i]]]),
                           scanned + 1, budget, typeOf, ws, muted,
                           channelTypes)

\* Does getUnreadsViaConversationsInfo scan the group for channel_types?
GroupWanted(channelTypes, groupType) ==
    \/ channelTypes = "all"
    \/ channelTypes = "dm" /\ groupType = "dm"
    \/ channelTypes = "group_dm" /\ groupType = "group_dm"
    \/ channelTypes \in {"internal", "partner"} /\ groupType = ""

\* The groups of getUnreadsViaConversationsInfo with their budgets, scanned
\* in this order: im, mpim, public and private channels.
CollectViaConversationsInfo(ws, muted, channelTypes, maxChannels) ==
    LET scan(ids, groupType, budget) ==
            IF GroupWanted(channelTypes, groupType)
              THEN ScanTypeGroup(ids, 1, <<>>, 0, budget, TypesOf(ws), ws,
                                 muted, channelTypes)
              ELSE <<>>
    IN  scan(UnreadIMs, "dm", maxChannels)
            \o scan(UnreadMPIMs, "group_dm", maxChannels \div 2)
            \o scan(UnreadChannels, "", maxChannels \div 2)

\* What GetMutedChannels may answer.
MutedFetches ==
    {[ok |-> FALSE, set |-> {}], [ok |-> TRUE, set |-> {}],
     [ok |-> TRUE, set |-> {"D1", "K1"}]}

UnreadInit ==
    /\ UnreadOthersIdle
    /\ uToken \in {"xoxc", "xoxp", "xoxb"}
    /\ uParams \in [maxChannels : 1..MaxChannelsBound,
                    channelTypes : {"all", "dm", "internal"},
                    includeMuted : BOOLEAN]
    /\ uMutedFetch \in MutedFetches
    /\ uWorkspace \in [UnreadIDs -> [hasUnreads : BOOLEAN,
                                    extShared : BOOLEAN]]
    /\ \A id \in UnreadIDs \ {"K2"} : ~uWorkspace[id].extShared
    /\ uPc = "start"
    /\ uMuted = {}
    /\ uMutedUnavailable = FALSE
    /\ uCollected = <<>>
    /\ uOut = <<>>
    /\ uHeader = {}
    /\ uErr = ""
    /\ uCalls = {}

\* ConversationsUnreadsHandler: the muted-channels fetch and the routing on
\* the token kind; mentions_only is false.
UnreadsHandler ==
    /\ uPc = "start"
    /\ \E countsOk \in BOOLEAN :
        LET fetch == ~uParams.includeMuted
            calls == IF fetch THEN {"users.prefs.get"} ELSE {}
        IN  /\ uMuted' = IF fetch /\ uMutedFetch.ok
                           THEN uMutedFetch.set ELSE {}
            /\ uMutedUnavailable' = (fetch /\ ~uMutedFetch.ok)
            /\ IF IsOAuth(uToken)
                 THEN IF IsBotToken(uToken)
                        THEN /\ uPc' = "done"
                             /\ uErr' = "bot tokens do not support unreads"
                             /\ uCalls' = calls
                        ELSE /\ uPc' = "fallback"
                             /\ uErr' = ""
                             /\ uCalls' = calls
                 ELSE /\ uCalls' = calls \cup {"client.counts"}
                      /\ uPc' = IF countsOk THEN "edge" ELSE "done"
                      /\ uErr' = IF countsOk THEN ""
                                 ELSE "failed to get client counts"
    /\ UNCHANGED <<uToken, uParams, uMutedFetch, uWorkspace, uCollected,
                   uOut, uHeader>>
    /\ UNCHANGED unreadOthers

\* processClientCountsResponse: collect, sort, cap, emit.
UnreadsProcessClientCounts ==
    /\ uPc = "edge"
    /\ LET collected == CollectClientCounts(uWorkspace, uMuted,
                                            uParams.channelTypes)
       IN  /\ uCollected' = collected
           /\ \E sorted \in SortSliceOutcomes(collected) :
                uOut' = CapChannels(sorted, uParams.maxChannels)
           /\ uCalls' = uCalls \cup
                (IF collected # <<>> THEN {"conversations.history"} ELSE {})
    /\ uHeader' = {}
    /\ uPc' = "done"
    /\ UNCHANGED <<uToken, uParams, uMutedFetch, uWorkspace, uMuted,
                   uMutedUnavailable, uErr>>
    /\ UNCHANGED unreadOthers

\* getUnreadsViaConversationsInfo: scan the groups, sort, emit behind the
\* xoxp note.
UnreadsViaConversationsInfo ==
    /\ uPc = "fallback"
    /\ LET collected == CollectViaConversationsInfo(uWorkspace, uMuted,
                            uParams.channelTypes, uParams.maxChannels)
       IN  /\ uCollected' = collected
           /\ uOut' \in SortSliceOutcomes(collected)
    /\ uHeader' = {"xoxp token", "scanned", "API calls"} \cup
                  (IF uMutedUnavailable /\ ~uParams.includeMuted
                     THEN {"Muted channel filtering is unavailable"}
                     ELSE {})
    /\ uCalls' = uCalls \cup {"users.conversations", "conversations.info",
                              "conversations.history"}
    /\ uPc' = "done"
    /\ UNCHANGED <<uToken, uParams, uMutedFetch, uWorkspace, uMuted,
                   uMutedUnavailable, uErr>>
    /\ UNCHANGED unreadOthers

UnreadNext ==
    \/ UnreadsHandler
    \/ UnreadsProcessClientCounts
    \/ UnreadsViaConversationsInfo

SpecUnread == UnreadInit /\ [][UnreadNext]_vars

\* The priorities the unread order is stated in.
UnreadPriority == [dm |-> 0, group_dm |-> 1, partner |-> 2, internal |-> 3]

\* The result of a finished unread call that returned no error.
UnreadResult == uPc = "done" /\ uErr = ""

\* The strategy that produced the result.
ViaClientCounts == "client.counts" \in uCalls
ViaFallback == "users.conversations" \in uCalls

\* C11: in the output of the unread engine, edge strategy or OAuth
\* fallback, consecutive channels have non-decreasing priority, with
\* dm = 0 < group_dm = 1 < partner = 2 < internal = 3.
C11_PriorityOrder ==
    UnreadResult =>
        \A i \in 1..(Len(uOut) - 1) :
            UnreadPriority[uOut[i].type] <= UnreadPriority[uOut[i + 1].type]

C11_Witness ==
    /\ UnreadResult
    /\ ViaClientCounts
    /\ Len(uOut) = 3
    /\ uOut[1].type = "dm"
    /\ uOut[2].type = "partner"
    /\ uOut[3].type = "internal"
    /\ uCollected[1].type = "internal"

\* The channels of one priority, in the order they were collected.
OfPriority(channels, pr) ==
    SelectSeq(channels, LAMBDA c : UnreadPriority[c.type] = pr)

\* The stable sort of the collected channels.
StableSorted(channels) ==
    OfPriority(channels, 0) \o OfPriority(channels, 1)
        \o OfPriority(channels, 2) \o OfPriority(channels, 3)

\* C12: the unread priority sort is stable: channels of equal priority keep
\* the order in which they were collected, so the channels that survive the
\* max_channels cap and their order are those of the stable sort.
C12_StableSort ==
    UnreadResult =>
        uOut = IF ViaClientCounts
                 THEN CapChannels(StableSorted(uCollected),
                                  uParams.maxChannels)
                 ELSE StableSorted(uCollected)

\* C13: for max_channels >= 1 the result holds at most max_channels
\* channels, whichever strategy produced it.
C13_MaxChannelsCap ==
    UnreadResult => Len(uOut) <= uParams.maxChannels

\* The same for the edge strategy alone.
ClientCountsCapped ==
    (UnreadResult /\ ViaClientCounts) => Len(uOut) <= uParams.maxChannels

\* What an unread scan calls.
UnreadScanCalls ==
    {"client.counts", "users.conversations", "conversations.info",
     "conversations.history"}

\* C14: an unread request served by a bot-token (xoxb) client returns an
\* error and makes none of the calls of an unread scan.
C14_BotTokenRejected ==
    (uPc = "done" /\ uToken = "xoxb") =>
        /\ uErr # ""
        /\ uCalls \cap UnreadScanCalls = {}
        /\ uOut = <<>>

C14_Witness ==
    /\ uPc = "done"
    /\ uToken = "xoxb"
    /\ uWorkspace["D1"].hasUnreads
    /\ uErr = "bot tokens do not support unreads"

\* C15: the muted filter is applied only when the muted set was fetched,
\* and whenever it could not be fetched while include_muted is false the
\* header of the output says that muted-channel filtering is unavailable.
C15_MutedHandling ==
    /\ (uMuted # {} => (~uParams.includeMuted /\ uMutedFetch.ok))
    /\ (UnreadResult /\ ~uParams.includeMuted /\ ~uMutedFetch.ok)
        => "Muted channel filtering is unavailable" \in uHeader

\* The same for the user-OAuth fallback alone, with the rest of its note.
FallbackReportsMutedUnavailable ==
    /\ (uMuted # {} => (~uParams.includeMuted /\ uMutedFetch.ok))
    /\ (UnreadResult /\ ViaFallback /\ ~uParams.includeMuted
        /\ ~uMutedFetch.ok)
        => {"xoxp token", "scanned", "API calls",
            "Muted channel filtering is unavailable"} \subseteq uHeader

(***************************************************************************)
(* pkg/handler/conversations.go: ConversationsHistoryHandler and           *)
(* ConversationsRepliesHandler, called by a client that follows the cursor *)
(* of each response.  A cursor is Slack's; the handlers pass it through    *)
(* unchanged, so it is modelled by the position it stands for, 0 being the *)
(* empty cursor.                                                           *)
(***************************************************************************)
MaxMessages == 5

MaxLimit == 2

\* The SubType values of the messages: an ordinary message and an activity
\* message.
SubTypes == {"", "channel_join"}

HistoryChannels ==
    UNION {[1..n -> SubTypes] : n \in 0..MaxMessages}

\* The page size Slack uses when the request carries no limit.
SlackPageSizes == 1..MaxMessages

\* parseParamsToolConversations: the limit sent to Slack.  A numeric limit
\* is parsed only when no cursor is given; with a cursor it stays 0.
ParamLimit(limit, cursor) == IF cursor = 0 THEN limit ELSE 0

\* conversations.history / conversations.replies: the messages after the
\* cursor, at most pageSize of them, and whether more follow.
SlackPage(messages, cursor, pageSize) ==
    LET last == IF cursor + pageSize < Len(messages)
                  THEN cursor + pageSize ELSE Len(messages)
    IN  [ids |-> [i \in 1..(last - cursor) |-> cursor + i],
         hasMore |-> last < Len(messages),
         nextCursor |-> IF last < Len(messages) THEN last ELSE 0]

\* convertMessagesFromHistory keeps a message unless it is an activity
\* message and include_activity_messages is off.
KeepsMessage(subType, includeActivity) ==
    subType \in {"", "bot_message", "thread_broadcast"} \/ includeActivity

RECURSIVE convertMessagesFromHistory(_, _, _)
convertMessagesFromHistory(ids, messages, includeActivity) ==
    IF ids = <<>> THEN <<>>
    ELSE LET rest == convertMessagesFromHistory(Tail(ids), messages,
                                                includeActivity)
         IN  IF KeepsMessage(messages[Head(ids)], includeActivity)
               THEN <<Head(ids)>> \o rest
               ELSE rest

\* The cursor the handler puts on the last row.
RowCursor(rows, page) ==
    IF Len(rows) > 0 /\ page.hasMore THEN page.nextCursor ELSE 0

HistoryInit ==
    /\ HistoryOthersIdle
    /\ hTool \in {"conversations_history", "conversations_replies"}
    /\ hMessages \in HistoryChannels
    /\ hLimit \in 1..MaxLimit
    /\ hActivity \in BOOLEAN
    /\ hCalls = 0
    /\ hSlack = NoAnswer
    /\ hResp = NoResponse
    /\ hSeen = {}

\* One call of the handler with the given cursor and Slack's page size.
HistoryCall(cursor, pageSize) ==
    LET page == SlackPage(hMessages, cursor, pageSize)
        rows == convertMessagesFromHistory(page.ids, hMessages, hActivity)
    IN  /\ hCalls' = hCalls + 1
        /\ hSlack' = [hasMore |-> page.hasMore,
                      nextCursor |-> page.nextCursor]
        /\ hResp' = [rows |-> rows, cursor |-> RowCursor(rows, page)]
        /\ hSeen' = hSeen \cup {rows[i] : i \in 1..Len(rows)}
        /\ UNCHANGED <<hTool, hMessages, hLimit, hActivity>>
        /\ UNCHANGED historyOthers

\* The first call: limit given, no cursor.
HistoryFirstPage ==
    /\ hCalls = 0
    /\ HistoryCall(0, ParamLimit(hLimit, 0))

\* A later call: the cursor of the last response is passed back; the limit
\* sent to Slack is 0 and Slack chooses the page size.
HistoryNextPage ==
    /\ hCalls > 0
    /\ hResp.cursor # 0
    /\ ParamLimit(hLimit, hResp.cursor) = 0
    /\ \E pageSize \in SlackPageSizes : HistoryCall(hResp.cursor, pageSize)

HistoryNext ==
    \/ HistoryFirstPage
    \/ HistoryNextPage

SpecHistory == HistoryInit /\ [][HistoryNext]_vars

\* The messages a client is to receive.
KeptMessages ==
    {i \in 1..Len(hMessages) : KeepsMessage(hMessages[i], hActivity)}

\* C19: a history/replies response carries Slack's cursor on its last row
\* whenever Slack reports a next page and an empty cursor otherwise, so a
\* client that follows the cursors until an empty one has received every
\* message.
C19_HistoryPagination ==
    hCalls > 0
        => /\ hSlack.hasMore
                => hResp.rows # <<>> /\ hResp.cursor = hSlack.nextCursor
           /\ ~hSlack.hasMore => hResp.cursor = 0
           /\ hResp.cursor = 0 => hSeen = KeptMessages

\* The same, for the responses that have at least one row.
HistoryCursorOnLastRow ==
    (hCalls > 0 /\ hResp.rows # <<>>)
        => /\ hResp.cursor = hSlack.nextCursor
           /\ hResp.cursor = 0 => ~hSlack.hasMore

\* With include_activity_messages on, following the cursors reaches every
\* message.
HistoryPaginationWithActivity ==
    (hCalls > 0 /\ hActivity /\ hResp.cursor = 0)
        => hSeen = 1..Len(hMessages)

\* The first call with limit 2 over five ordinary messages: two rows and a
\* cursor.
HistoryFirstPageOfFive ==
    /\ hCalls = 1
    /\ Len(hMessages) = MaxMessages
    /\ hLimit = MaxLimit
    /\ Len(hResp.rows) = MaxLimit
    /\ hResp.cursor = MaxLimit

(***************************************************************************)
(* pkg/handler/conversations.go: ConversationsSearchHandler and            *)
(* parseParamsToolSearch, called by a client that follows the cursor of    *)
(* each response.  Here a string is the sequence of its bytes, and a       *)
(* base64 text the sequence of its characters' values, 0..63 for the       *)
(* alphabet and Pad for '='.                                                *)
(***************************************************************************)
MaxPages == 101

Pad == 64

\* "page:"
PagePrefix == <<112, 97, 103, 101, 58>>

Colon == 58

\* fmt.Sprintf("%d", n)
RECURSIVE FormatInt(_)
FormatInt(n) ==
    IF n < 0 THEN <<45>> \o FormatInt(0 - n)
    ELSE IF n < 10 THEN <<48 + n>>
    ELSE FormatInt(n \div 10) \o <<48 + (n % 10)>>

\* base64.StdEncoding.EncodeToString
RECURSIVE Base64Encode(_)
Base64Encode(b) ==
    IF Len(b) = 0 THEN <<>>
    ELSE IF Len(b) = 1
      THEN <<b[1] \div 4, (b[1] % 4) * 16, Pad, Pad>>
    ELSE IF Len(b) = 2
      THEN <<b[1] \div 4, (b[1] % 4) * 16 + (b[2] \div 16),
             (b[2] % 16) * 4, Pad>>
    ELSE <<b[1] \div 4, (b[1] % 4) * 16 + (b[2] \div 16),
           (b[2] % 16) * 4 + (b[3] \div 64), b[3] % 64>>
             \o Base64Encode(SubSeq(b, 4, Len(b)))

\* base64.StdEncoding.DecodeString: the bytes, or ok = FALSE for a text
\* that is not base64.
RECURSIVE Base64Decode(_)
Base64Decode(c) ==
    IF Len(c) = 0 THEN [ok |-> TRUE, bytes |-> <<>>]
    ELSE IF Len(c) < 4 \/ c[1] = Pad \/ c[2] = Pad
      THEN [ok |-> FALSE, bytes |-> <<>>]
    ELSE IF c[3] = Pad
      THEN [ok |-> Len(c) = 4 /\ c[4] = Pad,
            bytes |-> <<c[1] * 4 + (c[2] \div 16)>>]
    ELSE IF c[4] = Pad
      THEN [ok |-> Len(c) = 4,
            bytes |-> <<c[1] * 4 + (c[2] \div 16),
                        (c[2] % 16) * 16 + (c[3] \div 4)>>]
    ELSE LET rest == Base64Decode(SubSeq(c, 5, Len(c)))
         IN  [ok |-> rest.ok,
              bytes |-> <<c[1] * 4 + (c[2] \div 16),
                          (c[2] % 16) * 16 + (c[3] \div 4),
                          (c[3] % 4) * 64 + c[4]>> \o rest.bytes]

IsDigit(b) == b \in 48..57

RECURSIVE DigitsValue(_)
DigitsValue(d) ==
    IF d = <<>> THEN 0
    ELSE DigitsValue(SubSeq(d, 1, Len(d) - 1)) * 10 + (d[Len(d)] - 48)

\* strconv.Atoi: an optional sign and at least one digit.
Atoi(s) ==
    LET signed == s # <<>> /\ Head(s) \in {43, 45}
        digits == IF signed THEN Tail(s) ELSE s
    IN  IF digits = <<>> \/ \E i \in 1..Len(digits) : ~IsDigit(digits[i])
          THEN [ok |-> FALSE, n |-> 0]
        ELSE [ok |-> TRUE,
              n |-> IF signed /\ Head(s) = 45
                      THEN 0 - DigitsValue(digits)
                      ELSE DigitsValue(digits)]

\* Variant of NextCursorPage: the cursor names the page it was emitted on.
NextCursorSamePage(page) == page

\* The page the cursor emitted on a page names.
NextCursorPage(page) == page + 1

\* ConversationsSearchHandler: the cursor put on the last row of page.
NextCursor(page) ==
    Base64Encode(PagePrefix \o FormatInt(NextCursorPage(page)))

\* parseParamsToolSearch: the page a cursor asks for.
ParseCursor(cursor) ==
    LET decodedCursor == Base64Decode(cursor)
        parts == Split(decodedCursor.bytes, Colon)
        page == Atoi(parts[2])
    IN  IF cursor = <<>> THEN [err |-> "", page |-> 1]
        ELSE IF ~decodedCursor.ok THEN [err |-> "invalid cursor", page |-> 0]
        ELSE IF Len(parts) # 2 THEN [err |-> "invalid cursor", page |-> 0]
        ELSE IF ~page.ok \/ page.n < 1
          THEN [err |-> "invalid cursor page", page |-> 0]
        ELSE [err |-> "", page |-> page.n]

SearchInit ==
    /\ SearchOthersIdle
    /\ qPageCount \in 1..MaxPages
    /\ qCalls = 0
    /\ qSent = NoCursor
    /\ qParsed = NotParsed
    /\ qResp = NoCursor

\* One call of ConversationsSearchHandler with the cursor sent; Slack
\* answers the page asked for, with or without matches.
SearchCall(sent, hasMatches) ==
    LET params == ParseCursor(sent.cursor)
    IN  /\ qCalls' = qCalls + 1
        /\ qSent' = sent
        /\ qParsed' = params
        /\ qResp' = IF params.err = "" /\ hasMatches
                       /\ params.page < qPageCount
                      THEN [cursor |-> NextCursor(params.page),
                            emittedOn |-> params.page]
                      ELSE NoCursor
        /\ UNCHANGED qPageCount
        /\ UNCHANGED searchOthers

\* The first call: no cursor.
SearchFirstPage ==
    /\ qCalls = 0
    /\ \E hasMatches \in BOOLEAN : SearchCall(NoCursor, hasMatches)

\* A later call: the cursor of the last response is passed back.
SearchNextPage ==
    /\ qCalls > 0
    /\ qResp.cursor # <<>>
    /\ \E hasMatches \in BOOLEAN : SearchCall(qResp, hasMatches)

SearchNext ==
    \/ SearchFirstPage
    \/ SearchNextPage

SpecSearch == SearchInit /\ [][SearchNext]_vars

\* C20: for any search page n >= 1, the cursor emitted on page n (base64
\* of "page:<n+1>"), decoded by parseParamsToolSearch, yields page n + 1.
C20_CursorRoundTrip ==
    (qCalls > 0 /\ qSent.cursor # <<>>)
        => /\ qSent.emittedOn >= 1
           /\ qParsed.err = ""
           /\ qParsed.page = qSent.emittedOn + 1

\* A cursor emitted on a page whose successor has one digit more was
\* decoded.
C20_Witness ==
    /\ qCalls > 0
    /\ qSent.cursor # <<>>
    /\ qSent.emittedOn = 9
    /\ qParsed.page = 10

(***************************************************************************)
(* pkg/handler/conversations.go: the search-query builder of               *)
(* parseParamsToolSearch.  A query is a sequence of symbols: " ", ":",     *)
(* "#", "@", "<@", ">" and whole words (a filter key, a name, a user ID,   *)
(* a date as written).                                                     *)
(***************************************************************************)

\* The day of January 2025 that time.Now() falls on.
Today == 10

\* The order buildQuery emits the filter keys in.
FilterKeyOrder ==
    <<"is", "in", "from", "with", "before", "after", "on", "during">>

\* validFilterKeys
validFilterKeys == {FilterKeyOrder[i] : i \in 1..Len(FilterKeyOrder)}

\* strings.ToLower of a word.
ToLower(word) ==
    IF word = "FROM" THEN "from" ELSE IF word = "ON" THEN "on" ELSE word

\* The users cache: Users by ID, UsersInv by name.
UsersByID == {"U_alice", "U_bob"}

UsersInv == [n \in {<<"alice">>, <<"bob">>} |->
                IF n = <<"alice">> THEN "U_alice" ELSE "U_bob"]

\* The dates as they are written in ISO form, and the day each names.
IsoDates == {"2025-01-09", "2025-01-10", "2025-01-11"}

DayOf(iso) ==
    IF iso = "2025-01-09" THEN Today - 1
    ELSE IF iso = "2025-01-10" THEN Today
    ELSE Today + 1

\* time.Time.Format("2006-01-02")
FormatDate(day) == CHOOSE iso \in IsoDates : DayOf(iso) = day

\* parseFlexibleDate: the day and its normalised form.
parseFlexibleDate(dateStr) ==
    LET d == TrimSpace(dateStr)
    IN  IF Len(d) = 1 /\ d[1] \in IsoDates
          THEN [ok |-> TRUE, day |-> DayOf(d[1]), normalized |-> d]
        ELSE IF d = <<"today">>
          THEN [ok |-> TRUE, day |-> Today,
                normalized |-> <<FormatDate(Today)>>]
        ELSE IF d = <<"yesterday">>
          THEN [ok |-> TRUE, day |-> Today - 1,
                normalized |-> <<FormatDate(Today - 1)>>]
        ELSE IF d = <<"tomorrow">>
          THEN [ok |-> TRUE, day |-> Today + 1,
                normalized |-> <<FormatDate(Today + 1)>>]
        ELSE [ok |-> FALSE, day |-> 0, normalized |-> <<>>]

\* buildDateFilters: the combinations it rejects.
DateFiltersConflict(before, after, on, during) ==
    IF on # <<>> THEN during # <<>> \/ before # <<>> \/ after # <<>>
    ELSE during # <<>> /\ (before # <<>> \/ after # <<>>)

\* buildDateFilters: the error, or the normalised filters by key.
buildDateFilters(before, after, on, during) ==
    LET none == [k \in {"before", "after", "on", "during"} |-> <<>>]
        o == parseFlexibleDate(on)
        d == parseFlexibleDate(during)
        a == parseFlexibleDate(after)
        b == parseFlexibleDate(before)
    IN  IF DateFiltersConflict(before, after, on, during)
          THEN [err |-> "date_conflict", out |-> none]
        ELSE IF on # <<>>
          THEN IF o.ok
                 THEN [err |-> "", out |-> [none EXCEPT !["on"] = o.normalized]]
                 ELSE [err |-> "invalid_date", out |-> none]
        ELSE IF during # <<>>
          THEN IF d.ok
                 THEN [err |-> "",
                       out |-> [none EXCEPT !["during"] = d.normalized]]
                 ELSE [err |-> "invalid_date", out |-> none]
        ELSE IF after # <<>> /\ ~a.ok
          THEN [err |-> "invalid_date", out |-> none]
        ELSE IF before # <<>> /\ ~b.ok
          THEN [err |-> "invalid_date", out |-> none]
        ELSE IF after # <<>> /\ before # <<>> /\ a.day > b.day
          THEN [err |-> "date_order", out |-> none]
        ELSE [err |-> "",
              out |-> [none EXCEPT !["after"] = a.normalized,
                                   !["before"] = b.normalized]]

\* strings.Fields
RECURSIVE NonEmpty(_)
NonEmpty(parts) ==
    IF parts = <<>> THEN <<>>
    ELSE IF Head(parts) = <<>> THEN NonEmpty(Tail(parts))
    ELSE <<Head(parts)>> \o NonEmpty(Tail(parts))

Fields(q) == NonEmpty(Split(q, " "))

\* strings.SplitN(tok, ":", 2)
SplitN2(tok) ==
    IF \E i \in 1..Len(tok) : tok[i] = ":"
      THEN LET i == CHOOSE j \in 1..Len(tok) :
                        tok[j] = ":" /\ \A k \in 1..(j - 1) : tok[k] # ":"
           IN  <<SubSeq(tok, 1, i - 1), SubSeq(tok, i + 1, Len(tok))>>
      ELSE <<tok>>

NoFilters == [k \in validFilterKeys |-> <<>>]

\* splitQuery: the free text tokens and the filters already in the query.
RECURSIVE splitTokens(_, _, _)
splitTokens(toks, freeText, filters) ==
    IF toks = <<>> THEN [freeText |-> freeText, filters |-> filters]
    ELSE LET parts == SplitN2(Head(toks))
             isFilter == /\ Len(parts) = 2
                         /\ Len(parts[1]) = 1
                         /\ ToLower(parts[1][1]) \in validFilterKeys
         IN  IF isFilter
               THEN splitTokens(Tail(toks), freeText,
                        [filters EXCEPT ![ToLower(parts[1][1])] =
                                            Append(@, parts[2])])
               ELSE splitTokens(Tail(toks), Append(freeText, Head(toks)),
                                filters)

splitQuery(q) == splitTokens(Fields(q), <<>>, NoFilters)

\* addFilter: append unless the key already has the value.  An empty val
\* stands for a filter that is not added.
addFilter(filters, key, val) ==
    IF val = <<>> \/ \E i \in 1..Len(filters[key]) : filters[key][i] = val
      THEN filters
      ELSE [filters EXCEPT ![key] = Append(@, val)]

\* paramFormatUser
paramFormatUser(raw) ==
    LET r0 == TrimSpace(raw)
        r1 == IF HasPrefix(r0, <<"<@">>) THEN Tail(r0) ELSE r0
        r2 == IF HasPrefix(r1, <<"@">>) THEN Tail(r1) ELSE r1
    IN  IF r0 # <<>> /\ Head(r0) \in UsersByID
          THEN IF Len(r0) = 1
                 THEN [err |-> "", val |-> <<"<@", r0[1], ">">>]
                 ELSE [err |-> "not_found", val |-> <<>>]
        ELSE IF r2 \in DOMAIN UsersInv
          THEN [err |-> "", val |-> <<"<@", UsersInv[r2], ">">>]
        ELSE [err |-> "not_found", val |-> <<>>]

\* paramFormatChannel: the Name the cache holds for the channel.
paramFormatChannel(raw) ==
    LET r == TrimSpace(raw)
    IN  IF HasPrefix(r, <<"#">>)
          THEN IF r = <<"#", "general">>
                 THEN [err |-> "", val |-> gName]
                 ELSE [err |-> "not_found", val |-> <<>>]
        ELSE IF r = <<"C1">> THEN [err |-> "", val |-> gName]
        ELSE IF r # <<>> /\ Head(r) \in {"C1", "C2"}
          THEN [err |-> "not_found", val |-> <<>>]
        ELSE [err |-> "invalid_channel", val |-> <<>>]

\* strings.Join(out, " ")
RECURSIVE Join(_)
Join(toks) ==
    IF toks = <<>> THEN <<>>
    ELSE IF Len(toks) = 1 THEN toks[1]
    ELSE toks[1] \o <<" ">> \o Join(Tail(toks))

\* The key:value tokens of one key.
KeyTokens(key, vals) == [i \in 1..Len(vals) |-> <<key, ":">> \o vals[i]]

RECURSIVE FilterTokens(_, _)
FilterTokens(filters, i) ==
    IF i > Len(FilterKeyOrder) THEN <<>>
    ELSE KeyTokens(FilterKeyOrder[i], filters[FilterKeyOrder[i]])
             \o FilterTokens(filters, i + 1)

\* buildQuery
buildQuery(freeText, filters) == Join(freeText \o FilterTokens(filters, 1))

\* parseParamsToolSearch up to finalQuery.
BuildSearchQuery(rawQuery, p) ==
    LET split == splitQuery(TrimSpace(rawQuery))
        f0 == IF p.threadsOnly
                THEN addFilter(split.filters, "is", <<"thread">>)
                ELSE split.filters
        inCh == paramFormatChannel(p.inChannel)
        inIm == paramFormatUser(p.inIm)
        with == paramFormatUser(p.usersWith)
        from == paramFormatUser(p.usersFrom)
        f1 == IF p.inChannel # <<>> THEN addFilter(f0, "in", inCh.val)
              ELSE IF p.inIm # <<>> THEN addFilter(f0, "in", inIm.val)
              ELSE f0
        f2 == IF p.usersWith # <<>> THEN addFilter(f1, "with", with.val)
              ELSE f1
        f3 == IF p.usersFrom # <<>> THEN addFilter(f2, "from", from.val)
              ELSE f2
        dates == buildDateFilters(p.before, p.after, p.on, p.during)
        f4 == addFilter(addFilter(addFilter(addFilter(f3,
                  "before", dates.out["before"]),
                  "after", dates.out["after"]),
                  "on", dates.out["on"]),
                  "during", dates.out["during"])
    IN  IF p.inChannel # <<>> /\ inCh.err # ""
          THEN [err |-> inCh.err, query |-> <<>>]
        ELSE IF p.inChannel = <<>> /\ p.inIm # <<>> /\ inIm.err # ""
          THEN [err |-> inIm.err, query |-> <<>>]
        ELSE IF p.usersWith # <<>> /\ with.err # ""
          THEN [err |-> with.err, query |-> <<>>]
        ELSE IF p.usersFrom # <<>> /\ from.err # ""
          THEN [err |-> from.err, query |-> <<>>]
        ELSE IF dates.err # ""
          THEN [err |-> dates.err, query |-> <<>>]
        ELSE [err |-> "", query |-> buildQuery(split.freeText, f4)]

\* The raw queries the model passes.
RawQueries ==
    {<<>>,
     <<"hello">>,
     <<"hello", " ", "from", ":", "@", "alice">>,
     <<"FROM", ":", "<@", "U_alice", ">", " ", " ", "hello">>,
     <<"in", ":", "general", " ", "is", ":", "thread">>,
     <<"on", ":", "2025-01-09">>,
     <<"during", ":", "2025-01-10", " ", "hello">>,
     <<"after", ":", "2025-01-11", " ", "before", ":", "2025-01-09">>,
     <<"after", ":", "2025-01-09">>}

DateParams == {<<>>, <<"2025-01-09">>, <<"tomorrow">>, <<"soon">>}

\* The structured parameters: every combination of the channel and user
\* filters without date filters, and every combination of the date filters
\* with or without filter_in_channel.
SearchFilters ==
    [inChannel : {<<>>, <<"#", "general">>, <<"C2">>},
     inIm : {<<>>, <<"@", "bob">>},
     usersWith : {<<>>, <<"U_bob">>},
     usersFrom : {<<>>, <<"@", "alice">>, <<"<@", "U_alice", ">">>},
     before : {<<>>}, after : {<<>>}, on : {<<>>}, during : {<<>>},
     threadsOnly : BOOLEAN]
    \cup
    [inChannel : {<<>>, <<"#", "general">>},
     inIm : {<<>>}, usersWith : {<<>>}, usersFrom : {<<>>},
     before : DateParams,
     after : {<<>>, <<"yesterday">>, <<"2025-01-11">>},
     on : {<<>>, <<"today">>},
     during : {<<>>, <<"2025-01-10">>},
     threadsOnly : {FALSE}]

QueryInit ==
    /\ QueryOthersIdle
    /\ gRaw \in RawQueries
    /\ gFilters \in SearchFilters
    /\ gName \in {<<"general">>, <<"#", "general">>}
    /\ gDone = FALSE
    /\ gErr = ""
    /\ gQuery = <<>>

QueryBuild ==
    /\ ~gDone
    /\ LET r == BuildSearchQuery(gRaw, gFilters)
       IN  /\ gDone' = TRUE
           /\ gErr' = r.err
           /\ gQuery' = r.query
    /\ UNCHANGED <<gRaw, gFilters, gName>>
    /\ UNCHANGED queryOthers

QueryNext == QueryBuild

SpecQuery == QueryInit /\ [][QueryNext]_vars

\* The filters of the composed query.
ComposedFilters == splitQuery(gQuery).filters

\* The days the values of a date filter of the composed query name.
FilterDays(key) ==
    {parseFlexibleDate(ComposedFilters[key][i]).day :
        i \in {j \in 1..Len(ComposedFilters[key]) :
                  parseFlexibleDate(ComposedFilters[key][j]).ok}}

\* The exclusivity of the date filters of a query.
DatesExclusive ==
    /\ ComposedFilters["on"] # <<>>
          => /\ ComposedFilters["before"] = <<>>
             /\ ComposedFilters["after"] = <<>>
             /\ ComposedFilters["during"] = <<>>
    /\ ComposedFilters["during"] # <<>>
          => /\ ComposedFilters["before"] = <<>>
             /\ ComposedFilters["after"] = <<>>
    /\ \A a \in FilterDays("after"), b \in FilterDays("before") : a <= b

\* C21: in a composed search query "on" never appears with another date
\* filter, "during" never with "before" or "after", and "after" is never
\* later than "before", whether the filters come from the structured
\* parameters or from the raw query.
C21_DateFiltersExclusive ==
    (gDone /\ gErr = "") => DatesExclusive

\* The same, for the raw queries that hold no date filter.
StructuredDateFiltersExclusive ==
    (/\ gDone
     /\ gErr = ""
     /\ \A k \in {"before", "after", "on", "during"} :
            splitQuery(gRaw).filters[k] = <<>>)
        => DatesExclusive

\* A user filter value is a <@Uxxxxx> reference.
IsUserRef(val) ==
    Len(val) = 3 /\ val[1] = "<@" /\ val[2] \in UsersByID /\ val[3] = ">"

\* Every user filter of the composed query is a <@Uxxxxx> reference and no
\* channel filter keeps its "#".
FiltersResolved ==
    /\ \A k \in {"from", "with"} :
          \A i \in 1..Len(ComposedFilters[k]) :
             IsUserRef(ComposedFilters[k][i])
    /\ \A i \in 1..Len(ComposedFilters["in"]) :
          /\ ~HasPrefix(ComposedFilters["in"][i], <<"#">>)
          /\ ~HasPrefix(ComposedFilters["in"][i], <<"@">>)

\* The call of the example: search_query "hello from:@alice",
\* filter_in_channel "#general", filter_date_after "yesterday".
QueryExample ==
    /\ gRaw = <<"hello", " ", "from", ":", "@", "alice">>
    /\ gFilters = [inChannel |-> <<"#", "general">>, inIm |-> <<>>,
                   usersWith |-> <<>>, usersFrom |-> <<>>,
                   before |-> <<>>, after |-> <<"yesterday">>,
                   on |-> <<>>, during |-> <<>>, threadsOnly |-> FALSE]

\* C22: the example composes to
\* "hello in:general from:<@U_alice> after:2025-01-09", and in every
\* composed query the channel and user filter values, those of the raw
\* query included, are resolved to a bare channel name or a <@Uxxxxx>
\* reference.
C22_QueryComposition ==
    (gDone /\ gErr = "")
        => /\ FiltersResolved
           /\ QueryExample
                 => gQuery = <<"hello", " ", "in", ":", "general", " ",
                               "from", ":", "<@", "U_alice", ">", " ",
                               "after", ":", "2025-01-09">>

\* What the example composes to when the cache holds the bare name.
QueryExampleComposed ==
    (gDone /\ gErr = "" /\ QueryExample /\ gName = <<"general">>)
        => gQuery = <<"hello", " ", "in", ":", "general", " ",
                      "from", ":", "@", "alice", " ",
                      "after", ":", "2025-01-09">>

\* The user filters given as structured parameters are resolved.
StructuredUserFiltersResolved ==
    (/\ gDone
     /\ gErr = ""
     /\ \A k \in {"from", "with"} : splitQuery(gRaw).filters[k] = <<>>)
        => \A k \in {"from", "with"} :
              \A i \in 1..Len(ComposedFilters[k]) :
                 IsUserRef(ComposedFilters[k][i])

\* The composed query is the free text followed by the filters in the
\* fixed key order: composing its own split gives it back.
QueryKeyOrder ==
    (gDone /\ gErr = "")
        => gQuery = buildQuery(splitQuery(gQuery).freeText, ComposedFilters)

(***************************************************************************)
(* pkg/handler/conversations.go: limitByExpression.  Times are seconds     *)
(* since the epoch; the local zone is a fixed offset from UTC; strings are *)
(* sequences of bytes.                                                     *)
(***************************************************************************)
MaxCount == 8

SecondsPerDay == 86400

\* The days from 1970-01-01 to the civil date y-m-d of the proleptic
\* Gregorian calendar; a day past the end of the month runs into the next
\* one, as time.Date normalises it.
DaysFromCivil(y, m, d) ==
    LET yy == IF m <= 2 THEN y - 1 ELSE y
        era == yy \div 400
        yoe == yy - era * 400
        mp == IF m > 2 THEN m - 3 ELSE m + 9
        doy == (153 * mp + 2) \div 5 + d - 1
        doe == yoe * 365 + yoe \div 4 - yoe \div 100 + doy
    IN  era * 146097 + doe - 719468

\* The civil date of a day counted from 1970-01-01.
CivilFromDays(z) ==
    LET zz == z + 719468
        era == zz \div 146097
        doe == zz - era * 146097
        yoe == (doe - doe \div 1460 + doe \div 36524 - doe \div 146096)
                   \div 365
        doy == doe - (365 * yoe + yoe \div 4 - yoe \div 100)
        mp == (5 * doy + 2) \div 153
        m == IF mp < 10 THEN mp + 3 ELSE mp - 9
    IN  [y |-> yoe + era * 400 + (IF m <= 2 THEN 1 ELSE 0),
         m |-> m,
         d |-> doy - (153 * mp + 2) \div 5 + 1]

\* time.Date(now.Year(), now.Month(), now.Day(), 0, 0, 0, 0, loc): the
\* local day of now, counted from 1970-01-01.
LocalDay(now, zone) == (now + zone) \div SecondsPerDay

\* The instant of local midnight of a day.
MidnightOf(day, zone) == day * SecondsPerDay - zone

\* startOfToday.AddDate(0, -n, 0)
MonthsBefore(day, n) ==
    LET c == CivilFromDays(day)
        total == c.y * 12 + (c.m - 1) - n
    IN  DaysFromCivil(total \div 12, (total % 12) + 1, c.d)

\* Variant of DaysBack: midnight of count days before today.
DaysBackWhole(count) == count

\* The days that -n+1 goes back from today.
DaysBack(count) == count - 1

\* fmt.Sprintf("%d.000000", t)
SlackTimestamp(t) == FormatInt(t) \o <<46, 48, 48, 48, 48, 48, 48>>

\* defaultConversationsExpressionLimit, "1d"
DefaultExpressionLimit == <<49, 100>>

\* limitByExpression
limitByExpression(limitArg, now, zone) ==
    LET limit == IF limitArg = <<>> THEN DefaultExpressionLimit ELSE limitArg
        suffix == limit[Len(limit)]
        n == Atoi(SubSeq(limit, 1, Len(limit) - 1))
        today == LocalDay(now, zone)
        oldestDay == IF suffix = 100 THEN today - DaysBack(n.n)
                     ELSE IF suffix = 119 THEN today - DaysBack(n.n * 7)
                     ELSE MonthsBefore(today, n.n)
    IN  IF Len(limit) < 2 THEN [NoLimits EXCEPT !.err = "too_short"]
        ELSE IF ~n.ok \/ n.n <= 0
          THEN [NoLimits EXCEPT !.err = "not_positive"]
        ELSE IF suffix \notin {100, 119, 109}
          THEN [NoLimits EXCEPT !.err = "bad_suffix"]
        ELSE [err |-> "", slackLimit |-> 100,
              oldest |-> SlackTimestamp(MidnightOf(oldestDay, zone)),
              latest |-> SlackTimestamp(now)]

\* The instants the model takes for time.Now(): 2025-01-10T12:00:00Z,
\* 2025-03-31T08:30:00Z, 2024-03-01T00:00:00Z and 2025-01-01T23:59:59Z.
Nows == {1736510400, 1743409800, 1709251200, 1735775999}

\* The zones: UTC, UTC+05:30 and UTC-08:00.
Zones == {0, 19800, 0 - 28800}

\* The limit arguments: a count with a suffix d, w, m or h, and some that
\* are no expression.
LimitArgs ==
    {FormatInt(n) \o <<sfx>> : n \in 0..MaxCount, sfx \in {100, 119, 109}}
        \cup {<<>>, <<100>>, <<45, 49, 100>>, <<120, 100>>, <<55, 104>>}

LimitInit ==
    /\ LimitOthersIdle
    /\ lLimit \in LimitArgs
    /\ lNow \in Nows
    /\ lZone \in Zones
    /\ lDone = FALSE
    /\ lOut = NoLimits

LimitCall ==
    /\ ~lDone
    /\ lDone' = TRUE
    /\ lOut' = limitByExpression(lLimit, lNow, lZone)
    /\ UNCHANGED <<lLimit, lNow, lZone>>
    /\ UNCHANGED limitOthers

LimitNext == LimitCall

SpecLimit == LimitInit /\ [][LimitNext]_vars

\* The count of a limit of the form Nd with N >= 1, and 0 for any other.
DayCount ==
    IF Len(lLimit) >= 2 /\ lLimit[Len(lLimit)] = 100
         /\ Atoi(SubSeq(lLimit, 1, Len(lLimit) - 1)).ok
         /\ Atoi(SubSeq(lLimit, 1, Len(lLimit) - 1)).n >= 1
      THEN Atoi(SubSeq(lLimit, 1, Len(lLimit) - 1)).n
      ELSE 0

\* The call of the example: limit "7d" at 2025-01-10T12:00:00Z in UTC.
LimitExample ==
    lDone /\ lLimit = <<55, 100>> /\ lNow = 1736510400 /\ lZone = 0

\* Local midnight of today, computed from the instant.
StartOfToday ==
    (lNow + lZone) - ((lNow + lZone) % SecondsPerDay) - lZone

\* The seconds that a Slack timestamp of the result names.
SecondsOf(ts) == Atoi(SubSeq(ts, 1, Len(ts) - 7)).n

\* The result has two well-formed Slack timestamps, the latest being now.
LatestIsNow ==
    /\ lOut.err = ""
    /\ lOut.latest = SlackTimestamp(lNow)
    /\ SubSeq(lOut.oldest, Len(lOut.oldest) - 6, Len(lOut.oldest))
         = <<46, 48, 48, 48, 48, 48, 48>>

\* C23, as stated: a limit Nd sets oldest to local midnight of N days ago
\* and latest to the current time; 7d at 2025-01-10T12:00:00Z in UTC gives
\* oldest 1735603200.000000 and latest 1736510400.000000.
C23_DurationLimitStated ==
    (lDone /\ DayCount >= 1)
        => /\ LatestIsNow
           /\ SecondsOf(lOut.oldest)
                = StartOfToday - DayCount * SecondsPerDay
           /\ LimitExample
                 => SecondsOf(lOut.oldest) = 1735603200

\* C23, amended: a limit Nd sets oldest to local midnight of the day N - 1
\* days before today (today for 1d) and latest to the current time; 7d at
\* 2025-01-10T12:00:00Z in UTC gives oldest 1735948800.000000, midnight of
\* 2025-01-04, and latest 1736510400.000000.
C23_DurationLimit ==
    (lDone /\ DayCount >= 1)
        => /\ LatestIsNow
           /\ SecondsOf(lOut.oldest)
                = StartOfToday - (DayCount - 1) * SecondsPerDay
           /\ LimitExample
                 => /\ SecondsOf(lOut.oldest) = 1735948800
                    /\ SecondsOf(lOut.latest) = 1736510400
                    /\ CivilFromDays(1735948800 \div SecondsPerDay)
                         = [y |-> 2025, m |-> 1, d |-> 4]

C23_Witness ==
    /\ LimitExample
    /\ lOut.err = ""
    /\ lOut.oldest = SlackTimestamp(1735948800)

(***************************************************************************)
(* pkg/handler/conversations.go: ConversationsMarkHandler, called several  *)
(* times while messages arrive.  A timestamp is a number, 0 standing for   *)
(* the empty string; conversations.mark sets the channel's read position   *)
(* to the timestamp it is given.                                           *)
(***************************************************************************)
MaxTs == 2

MaxMarkCalls == 2

MarkChannels == {"C1", "C2"}

\* Variant of MarkTs: the latest message is marked whatever ts is.
MarkTsAlwaysLatest(ts, latest) == latest

\* The timestamp the handler marks: the ts parameter, or the latest
\* message's when ts is empty.
MarkTs(ts, latest) == IF ts = 0 THEN latest ELSE ts

\* ConversationsMarkHandler for a channel ID: the error, the response and
\* the read position afterwards.
MarkHandler(channel, ts, historyOk, markOk) ==
    LET target == MarkTs(ts, mLatest[channel])
        unchanged == mReadPos[channel]
    IN  IF mToolConfig \notin {<<"1">>, <<"true">>, <<"yes">>}
          THEN [err |-> "disabled", resp |-> <<>>, readPos |-> unchanged]
        ELSE IF ts = 0 /\ ~historyOk
          THEN [err |-> "history_failed", resp |-> <<>>,
                readPos |-> unchanged]
        ELSE IF ts = 0 /\ mLatest[channel] = 0
          THEN [err |-> "", resp |-> <<"No messages to mark as read">>,
                readPos |-> unchanged]
        ELSE IF ~markOk
          THEN [err |-> "mark_failed", resp |-> <<>>, readPos |-> unchanged]
        ELSE [err |-> "",
              resp |-> <<"Marked ", channel, " as read up to ", target>>,
              readPos |-> target]

MarkInit ==
    /\ MarkOthersIdle
    /\ mToolConfig \in {<<>>, <<"true">>}
    /\ mReadPos \in [MarkChannels -> 0..MaxTs]
    /\ mLatest \in [MarkChannels -> 0..MaxTs]
    /\ mCalls = 0
    /\ mPrev = NoMark
    /\ mLast = NoMark

MarkCall ==
    /\ mCalls < MaxMarkCalls
    /\ \E channel \in MarkChannels, ts \in 0..MaxTs,
          historyOk \in BOOLEAN, markOk \in BOOLEAN :
         LET r == MarkHandler(channel, ts, historyOk, markOk)
         IN  /\ mReadPos' = [mReadPos EXCEPT ![channel] = r.readPos]
             /\ mPrev' = mLast
             /\ mLast' = [channel |-> channel, ts |-> ts, err |-> r.err,
                          resp |-> r.resp, readPos |-> r.readPos]
    /\ mCalls' = mCalls + 1
    /\ UNCHANGED <<mToolConfig, mLatest>>
    /\ UNCHANGED markOthers

\* A message is posted to a channel.
MarkNewMessage ==
    /\ \E channel \in MarkChannels :
         /\ mLatest[channel] < MaxTs
         /\ mLatest' = [mLatest EXCEPT ![channel] = @ + 1]
    /\ UNCHANGED <<mToolConfig, mReadPos, mCalls, mPrev, mLast>>
    /\ UNCHANGED markOthers

MarkNext ==
    \/ MarkCall
    \/ MarkNewMessage

SpecMark == MarkInit /\ [][MarkNext]_vars

\* Two successive calls with the same channel and the same explicit ts,
\* both answered by Slack.
MarkedTwice ==
    /\ mCalls >= 2
    /\ mLast.channel = mPrev.channel
    /\ mLast.ts = mPrev.ts
    /\ mLast.ts # 0
    /\ mLast.err = ""
    /\ mPrev.err = ""

\* C24: after mark(channel, ts) is called twice with the same channel and
\* the same explicit ts, the channel's read position and the response are
\* those after the first call.
C24_MarkIdempotent ==
    MarkedTwice
        => /\ mLast.resp = mPrev.resp
           /\ mLast.readPos = mPrev.readPos
           /\ mReadPos[mLast.channel] = mPrev.readPos

\* The two calls were made with a message arriving in the channel.
C24_Witness ==
    /\ MarkedTwice
    /\ mLast.resp # <<>>
    /\ mLatest[mLast.channel] > mLast.ts

(***************************************************************************)
(* pkg/handler/conversations.go: scanTypeGroupForUnreads, one step per     *)
(* page fetch and per conversation of the page, with the request context   *)
(* cancelled at any moment.  limiter.CallWithRetry makes no call once the  *)
(* context is cancelled: its wait on the limiter returns the context's     *)
(* error.                                                                  *)
(***************************************************************************)
MaxScanChannels == 2

\* A max_channels whose group budgets, doubled, exceed MinMaxScan.
LargeMaxChannels == 52

\* dmBudget, mpimBudget, channelBudget
TypeGroupBudget(isDM, maxChannels) ==
    IF isDM THEN maxChannels ELSE maxChannels \div 2

ScanMaxChannels == (1..MaxScanChannels) \cup {LargeMaxChannels}

\* The conversations Slack returns in one page of users.conversations (at
\* most the Limit of 200 the scan asks for).
ScanPageLen == 20

\* The muted conversations of a type group.
MaxMuted == 2

\* The retries the scan allows CallWithRetry.
ScanMaxRetries == 2

ScanTotals ==
    {0, 1, 3, MinMaxScan + MaxMuted + 3, 2 * LargeMaxChannels + MaxMuted + 3}

\* Variant of MaxScan: no bound on the conversations probed (the tests
\* read a maxScan of zero as no bound).
MaxScanUnbounded(budget) == 0

\* maxScan
MaxScan(budget) ==
    IF budget * 2 < MinMaxScan THEN MinMaxScan ELSE budget * 2

\* The tests at the top of both loops.
ScanLimitReached ==
    cFound >= cBudget \/ (MaxScan(cBudget) > 0 /\ cScanned >= MaxScan(cBudget))

\* A call made on the Slack client directly.
DirectCall(method) ==
    [method |-> method, limited |-> FALSE, retries |-> 0,
     cancelled |-> cCancelled]

\* A call made through limiter.CallWithRetry(ctx, rl, 2, ...).
LimitedCall(method) ==
    [method |-> method, limited |-> TRUE, retries |-> ScanMaxRetries,
     cancelled |-> cCancelled]

ScanInit ==
    /\ ScanOthersIdle
    /\ cBudget \in {TypeGroupBudget(isDM, maxChannels) :
                       isDM \in BOOLEAN, maxChannels \in ScanMaxChannels}
    /\ cTotal \in ScanTotals
    /\ cPc = "fetch"
    /\ cPos = 0
    /\ cPageEnd = 0
    /\ cScanned = 0
    /\ cFound = 0
    /\ cCancelled = FALSE
    /\ cAtCancel = ScanNotCancelled
    /\ cLastCall = NoCall

\* The top of the outer loop: the tests, then users.conversations, called
\* on the Slack client directly.
ScanFetch ==
    /\ cPc = "fetch"
    /\ IF ScanLimitReached
         THEN /\ cPc' = "done"
              /\ UNCHANGED <<cPageEnd, cLastCall>>
         ELSE /\ cLastCall' = DirectCall("users.conversations")
              /\ \E slackOk \in BOOLEAN :
                   IF cCancelled \/ ~slackOk \/ cPos = cTotal
                     THEN cPc' = "done" /\ UNCHANGED cPageEnd
                     ELSE /\ cPc' = "page"
                          /\ cPageEnd' = IF cPos + ScanPageLen < cTotal
                                           THEN cPos + ScanPageLen
                                           ELSE cTotal
    /\ UNCHANGED <<cBudget, cTotal, cPos, cScanned, cFound, cCancelled,
                   cAtCancel>>
    /\ UNCHANGED scanOthers

\* One conversation of the page is muted and skipped.
ScanSkipMuted ==
    /\ cPc = "page"
    /\ cPos < cPageEnd
    /\ ~ScanLimitReached
    /\ cPos - cScanned < MaxMuted
    /\ cPos' = cPos + 1
    /\ UNCHANGED <<cBudget, cTotal, cPc, cPageEnd, cScanned, cFound,
                   cCancelled, cAtCancel, cLastCall>>
    /\ UNCHANGED scanOthers

\* One conversation of the page is probed: conversations.info and, for a
\* conversation that is no DM, conversations.history, both through
\* CallWithRetry; unread says whether the conversation is appended.
ScanProbe ==
    /\ cPc = "page"
    /\ cPos < cPageEnd
    /\ ~ScanLimitReached
    /\ cPos' = cPos + 1
    /\ cScanned' = cScanned + 1
    /\ IF cCancelled
         THEN UNCHANGED <<cFound, cLastCall>>
         ELSE \E method \in {"conversations.info", "conversations.history"},
                 unread \in BOOLEAN :
                /\ cLastCall' = LimitedCall(method)
                /\ cFound' = IF unread THEN cFound + 1 ELSE cFound
    /\ UNCHANGED <<cBudget, cTotal, cPc, cPageEnd, cCancelled, cAtCancel>>
    /\ UNCHANGED scanOthers

\* The inner loop ends: the page is exhausted or a limit is reached.
ScanPageEnd ==
    /\ cPc = "page"
    /\ cPos = cPageEnd \/ ScanLimitReached
    /\ cPc' = IF cPageEnd = cTotal THEN "done" ELSE "fetch"
    /\ UNCHANGED <<cBudget, cTotal, cPos, cPageEnd, cScanned, cFound,
                   cCancelled, cAtCancel, cLastCall>>
    /\ UNCHANGED scanOthers

\* The request context is cancelled.
ScanCancel ==
    /\ cPc \in {"fetch", "page"}
    /\ ~cCancelled
    /\ cCancelled' = TRUE
    /\ cAtCancel' = [pos |-> cPos, scanned |-> cScanned]
    /\ cLastCall' = NoCall
    /\ UNCHANGED <<cBudget, cTotal, cPc, cPos, cPageEnd, cScanned, cFound>>
    /\ UNCHANGED scanOthers

ScanNext ==
    \/ ScanFetch
    \/ ScanSkipMuted
    \/ ScanProbe
    \/ ScanPageEnd
    \/ ScanCancel

SpecScan == ScanInit /\ [][ScanNext]_vars

\* C25: every Slack call of the unread engine is made through the
\* rate-limited call primitive, with the Tier-3 limiter and at most 2
\* retries.
C25_EveryCallLimited ==
    cLastCall.method # "none"
        => cLastCall.limited /\ cLastCall.retries <= ScanMaxRetries

\* The same, for conversations.info and conversations.history of the scan.
ProbeCallsLimited ==
    cLastCall.method \in {"conversations.info", "conversations.history"}
        => cLastCall.limited /\ cLastCall.retries = ScanMaxRetries

\* C26: the scan of a type group probes at most max(budget * 2, 50)
\* conversations, goes on only while fewer than budget unread ones were
\* found, and returns at most budget of them.
C26_ScanBound ==
    /\ cScanned <= (IF cBudget * 2 > MinMaxScan THEN cBudget * 2
                                                ELSE MinMaxScan)
    /\ cFound <= cBudget
    /\ (cPc = "page" /\ cFound >= cBudget) => ENABLED ScanPageEnd
    /\ cPos <= cScanned + MaxMuted

\* The scan stopped at the bound with conversations left.
C26_Witness ==
    /\ cPc = "done"
    /\ cScanned = cBudget * 2
    /\ cScanned > MinMaxScan
    /\ cPos < cTotal
    /\ cFound < cBudget

\* C27: once the context is cancelled no further conversation is probed
\* and no further Slack call is attempted.
C27_ScanAbortsOnCancel ==
    cCancelled
        => /\ cScanned = cAtCancel.scanned
           /\ cPos = cAtCancel.pos
           /\ cLastCall.method = "none"

\* After the cancellation no conversations.info or conversations.history
\* call is made.
NoProbeCallAfterCancel ==
    cCancelled
        => cLastCall.method \notin {"conversations.info",
                                    "conversations.history"}

(***************************************************************************)
(* pkg/oauth: /oauth/callback requests served concurrently, each by its    *)
(* own goroutine (net/http).  Every InMemoryStore method is one atomic     *)
(* step, taken under the store's mutex; HandleCallback is a sequence of    *)
(* such steps.                                                             *)
(***************************************************************************)
MaxCallbacks == 2

Callbacks == 1..MaxCallbacks

CallbackStates == {"S1", "S2"}

\* Where HandleCallback goes after h.store.ValidateState(state).
ValidatedPc(valid) == IF valid THEN "delete" ELSE "rejected"

CallbackInit ==
    /\ CallbackOthersIdle
    /\ kStates = <<>>
    /\ kSaved = {}
    /\ kPc = [r \in Callbacks |-> "start"]
    /\ kParam = [r \in Callbacks |-> "none"]
    /\ kIssued = {}

\* Handler.HandleAuthorize: GenerateState returns a fresh random state,
\* SaveState stores it.
CallbackAuthorize ==
    \E state \in CallbackStates \ kSaved :
        /\ kStates' = MapPut(kStates, state, 0)
        /\ kSaved' = kSaved \cup {state}
        /\ UNCHANGED <<kPc, kParam, kIssued>>
        /\ UNCHANGED callbackOthers

\* HandleCallback up to the test of h.store.ValidateState(state).
CallbackValidate(r) ==
    /\ kPc[r] = "start"
    /\ \E state \in CallbackStates :
        /\ kParam' = [kParam EXCEPT ![r] = state]
        /\ kPc' = [kPc EXCEPT ![r] = ValidatedPc(ValidateState(kStates, state, 0))]
    /\ UNCHANGED <<kStates, kSaved, kIssued>>
    /\ UNCHANGED callbackOthers

\* h.store.DeleteState(state)
CallbackDelete(r) ==
    /\ kPc[r] = "delete"
    /\ kStates' = MapKeep(kStates, [k \in DOMAIN kStates |-> k # kParam[r]])
    /\ kPc' = [kPc EXCEPT ![r] = "exchange"]
    /\ UNCHANGED <<kSaved, kParam, kIssued>>
    /\ UNCHANGED callbackOthers

\* The code exchange with Slack, GenerateToken and SaveToken.
CallbackExchange(r) ==
    /\ kPc[r] = "exchange"
    /\ \E exchangeOk \in BOOLEAN :
        /\ kIssued' = IF exchangeOk THEN kIssued \cup {r} ELSE kIssued
        /\ kPc' = [kPc EXCEPT ![r] = IF exchangeOk THEN "done" ELSE "failed"]
    /\ UNCHANGED <<kStates, kSaved, kParam>>
    /\ UNCHANGED callbackOthers

CallbackNext ==
    \/ CallbackAuthorize
    \/ \E r \in Callbacks : CallbackValidate(r)
    \/ \E r \in Callbacks : CallbackDelete(r)
    \/ \E r \in Callbacks : CallbackExchange(r)

SpecCallback == CallbackInit /\ [][CallbackNext]_vars

\* The request passed the state validation.
PassedValidation(r) == kPc[r] \in {"delete", "exchange", "done", "failed"}

\* C28: a saved OAuth state is honoured by at most one callback: of the
\* callbacks that carry the same state at most one passes the validation,
\* and at most one is issued an MCP token.
C28_StateSingleUse ==
    \A a, b \in Callbacks :
        (a # b /\ kParam[a] = kParam[b])
            => /\ ~(PassedValidation(a) /\ PassedValidation(b))
               /\ ~(a \in kIssued /\ b \in kIssued)

\* A callback passes the validation only with a state that was saved.
CallbackNeedsSavedState ==
    \A r \in Callbacks : PassedValidation(r) => kParam[r] \in kSaved

\* Once a callback has deleted its state, the state is gone for good.
DeletedStateStaysInvalid ==
    \A r \in Callbacks :
        kPc[r] \in {"exchange", "done", "failed"}
            => ~ValidateState(kStates, kParam[r], 0)

(***************************************************************************)
(* pkg/server and pkg/handler: a write tool the registration policy        *)
(* registers, invoked under the same environment.                          *)
(***************************************************************************)

\* The write tools with a handler in the model and the env var of each.
AgreeTools == WriteTools \cup {"conversations_mark"}

AgreeEnvVar(tool) ==
    IF tool = "conversations_mark" THEN "SLACK_MCP_MARK_TOOL"
                                   ELSE WriteToolEnvVar[tool]

\* The enabled-tools list of a SLACK_MCP_ENABLED_TOOLS value: its
\* comma-separated names.
ParseEnabledTools(value) == {value[i] : i \in DOMAIN value} \ {","}

\* The registration policy applied to the handlers' environment.
ToolRegistered(tool, env) ==
    shouldAddTool(tool,
                  ParseEnabledTools(Getenv(env, "SLACK_MCP_ENABLED_TOOLS")),
                  AgreeEnvVar(tool), env)

\* The environments: one tool setting at a time, unset or on (the mark
\* setting also with a channel ID), with every enabled-tools list.
AgreeEnabledTools == EnabledToolsValues \cup {<<"conversations_mark">>}

AgreeEnvs ==
    {WriteEnv(<<>>, <<>>, e, k) :
        e \in AgreeEnabledTools, k \in {<<>>, <<"true">>, <<"C1">>}}
    \cup {WriteEnv(<<"true">>, <<>>, e, <<>>) : e \in AgreeEnabledTools}
    \cup {WriteEnv(<<>>, <<"true">>, e, <<>>) : e \in AgreeEnabledTools}

AgreeInit ==
    /\ WriteOthersIdle
    /\ wEnv \in AgreeEnvs
    /\ wUsersReady = TRUE
    /\ wChannelsReady = TRUE
    /\ wChannelsInv \in ChannelCaches
    /\ wLast = NoInvocation

AgreeNext ==
    \/ WriteNext
    \/ WriteMark

SpecAgree == AgreeInit /\ [][AgreeNext]_vars

\* C29: whenever the registration policy registers a write tool, the
\* handler's own enablement check does not reject an invocation of that
\* tool as disabled.
C29_RegistrationAgreesWithHandler ==
    (wLast.tool \in AgreeTools /\ ToolRegistered(wLast.tool, wEnv))
        => wLast.err # "disabled"

\* The same, for conversations_add_message, reactions_add and
\* reactions_remove.
MessageAndReactionToolsAgree ==
    (wLast.tool \in WriteTools /\ ToolRegistered(wLast.tool, wEnv))
        => wLast.err # "disabled"

\* A registered conversations_mark with SLACK_MCP_MARK_TOOL set to true is
\* not rejected as disabled.
MarkAgreesWhenEnvTrue ==
    (/\ wLast.tool = "conversations_mark"
     /\ ToolRegistered(wLast.tool, wEnv)
     /\ Getenv(wEnv, "SLACK_MCP_MARK_TOOL") = <<"true">>)
        => wLast.err # "disabled"

(***************************************************************************)
(* pkg/handler: the caller-supplied size parameters max_channels           *)
(* (conversations_unreads, edge strategy) and limit (channels_list).  A    *)
(* list is taken by its length; a slice expression s[lo:hi] with bounds    *)
(* out of range is a run-time panic.                                       *)
(***************************************************************************)
MaxSize == 3

MaxListLen == 4

\* The limit above which channels_list caps it.
MaxChannelsLimit == 999

\* The limit channels_list uses when none is given.
DefaultChannelsLimit == 100

\* The integers a caller passes: negative, zero, small, beyond the cap.
SizeValues == (-MaxSize..MaxSize) \cup {MaxChannelsLimit + 1}

\* s[lo:hi] of a list of length n (and capacity n): the panic, or the
\* length of the result.
GoSlice(n, lo, hi) ==
    IF 0 <= lo /\ lo <= hi /\ hi <= n
      THEN [panic |-> FALSE, len |-> hi - lo]
      ELSE [panic |-> TRUE, len |-> 0]

\* processClientCountsResponse: the cap on the sorted channels.
LimitChannels(n, maxChannels) ==
    IF n > maxChannels
      THEN GoSlice(n, 0, maxChannels)
      ELSE [panic |-> FALSE, len |-> n]

\* The limit ChannelsHandler passes to paginateChannels.
ChannelsLimit(limit) ==
    IF limit = 0 THEN DefaultChannelsLimit
    ELSE IF limit > MaxChannelsLimit THEN MaxChannelsLimit
    ELSE limit

\* paginateChannels from startIndex on.
paginateChannels(n, startIndex, limit) ==
    LET endIndex == IF startIndex + limit > n THEN n ELSE startIndex + limit
    IN  GoSlice(n, startIndex, endIndex)

SizeInit ==
    /\ SizeOthersIdle
    /\ zOp = "none"
    /\ zSize = 0
    /\ zLen = 0
    /\ zStart = 0
    /\ zResult = NoResult

\* conversations_unreads with a browser-session token: n channels with
\* unreads were collected and sorted.
SizeUnreads ==
    /\ zOp = "none"
    /\ \E maxChannels \in SizeValues, n \in 0..MaxListLen :
        /\ zOp' = "conversations_unreads"
        /\ zSize' = maxChannels
        /\ zLen' = n
        /\ zStart' = 0
        /\ zResult' = LimitChannels(n, maxChannels)
    /\ UNCHANGED sizeOthers

\* channels_list over n cached channels of the requested types; the cursor
\* is empty (startIndex 0) or names a channel before the last.
SizeChannelsList ==
    /\ zOp = "none"
    /\ \E limit \in SizeValues, n \in 0..MaxListLen :
        \E startIndex \in {0} \cup (0..(n - 1)) :
            /\ zOp' = "channels_list"
            /\ zSize' = limit
            /\ zLen' = n
            /\ zStart' = startIndex
            /\ zResult' = paginateChannels(n, startIndex, ChannelsLimit(limit))
    /\ UNCHANGED sizeOthers

SizeNext ==
    \/ SizeUnreads
    \/ SizeChannelsList

SpecSize == SizeInit /\ [][SizeNext]_vars

\* C30: for every integer max_channels of the unread operation and limit
\* of channels_list, zero and negative values included, the handler never
\* slices a list with an out-of-range bound.
C30_SizeParametersSafe == ~zResult.panic

\* The same, for sizes that are not negative.
NonNegativeSizesSafe == zSize >= 0 => ~zResult.panic

\* A page never holds more than the size asked for, when that is positive.
PageWithinSize ==
    (zOp # "none" /\ zSize > 0 /\ ~zResult.panic) => zResult.len <= zSize

====
